---- MODULE Spec2Model ----
(***************************************************************************)
(* A model of the escalation workflow of Hospital-Pulse-AI:                *)
(* backend/services/escalation_workflows.py (HumanEscalationService) and   *)
(* the request handlers of backend/routes/escalation.py that call it.      *)
(*                                                                         *)
(* Time is counted in whole hours.  A timestamp the code leaves at None is *)
(* NoneTime; a string field the code leaves at None is None; a dictionary  *)
(* key the code has not written yet is Absent.                             *)
(***************************************************************************)
EXTENDS Integers, Sequences, FiniteSets, TLC

VARIABLES
    escalation_events,  \* self.escalation_events: patient ids in insertion order, each with its list
    now,                \* datetime.now(), in hours
    next_id,            \* the next fresh uuid4
    result,             \* what the last create, acknowledge or resolve call returned
    pc,                 \* per request thread: the statement it is about to run
    frame,              \* per request thread: arguments and locals of its call
    observed,           \* the events the last read request was handed
    routing_case,       \* the pair of events the routing matrix is applied to
    dashboard_data,     \* what get_escalation_dashboard_data returned last
    assessment,         \* the last calculate_overall_risk_score call: inputs and result
    trigger_check,      \* the last check_escalation_triggers call: inputs and result
    report              \* the last generate_escalation_report call: filter and result

vars == <<escalation_events, now, next_id, result, pc, frame, observed, routing_case,
          dashboard_data, assessment, trigger_check, report>>

-----------------------------------------------------------------------------
(* Bounds of the exploration *)

MaxEvents == 1
MaxTime == 1

\* The acknowledge calls explored: <<acknowledged_by, notes>>; notes defaults to None
AckRequests == { <<"nurse_kim", "None">>, <<"dr_rao", "seen">> }
\* The resolve calls explored: <<resolved_by, resolution_notes, follow_up_required>>;
\* follow_up_required defaults to False
ResolveRequests == { <<"nurse_kim", "treated", FALSE>>, <<"dr_rao", "referred", TRUE>> }
Threads == {1, 2}

-----------------------------------------------------------------------------
(* Values *)

None == "None"
Absent == "absent"
NoneTime == -1

PENDING == "pending"
ACKNOWLEDGED == "acknowledged"
IN_PROGRESS == "in_progress"
RESOLVED == "resolved"
CANCELLED == "cancelled"

NURSE == "nurse"
PHYSICIAN == "physician"
SPECIALIST == "specialist"
EMERGENCY == "emergency"

NotFound == "not found"
UnknownId == 0

CreateFollowUpHours == 24
ResolveFollowUpHours == 7 * 24

\* escalation_templates: the title of each template
TemplateTitle(template_key) ==
    CASE template_key = "high_risk" -> "High Risk Patient Alert"
      [] template_key = "critical_vitals" -> "Critical Vitals Alert"
      [] template_key = "rapid_deterioration" -> "Rapid Deterioration Alert"
      [] template_key = "adherence_crisis" -> "Adherence Crisis Alert"
      [] template_key = "missed_appointment_risk" -> "High No-Show Risk"
      [] OTHER -> "High Risk Patient Alert"

\* Two of the triggers check_escalation_triggers hands to create_escalation_event
CriticalRiskTrigger ==
    [trigger_type |-> "critical_risk_score", escalation_level |-> PHYSICIAN,
     urgency |-> "immediate", template |-> "high_risk"]
AdherenceCrisisTrigger ==
    [trigger_type |-> "adherence_crisis", escalation_level |-> NURSE,
     urgency |-> "routine", template |-> "adherence_crisis"]

\* The create calls explored: a patient with the trigger found for them
CreateRequests ==
    { <<"P0007", CriticalRiskTrigger>>, <<"P0008", AdherenceCrisisTrigger>> }

-----------------------------------------------------------------------------
(* The store *)

\* every event of the store, in the order the code's nested loops visit them
RECURSIVE AllEventsFrom(_, _)
AllEventsFrom(store, i) ==
    IF i > Len(store) THEN <<>>
    ELSE store[i].events \o AllEventsFrom(store, i + 1)

AllEvents(store) == AllEventsFrom(store, 1)

EventIds(store) == {AllEvents(store)[i].escalation_id : i \in DOMAIN AllEvents(store)}

HasPatient(store, patient_id) == \E i \in DOMAIN store : store[i].patient_id = patient_id

\* faulty variant: the loop variable is returned when nothing matched
_find_escalation_by_id_last(store, escalation_id) ==
    LET all == AllEvents(store)
        hits == {i \in DOMAIN all : all[i].escalation_id = escalation_id}
    IN  IF all = <<>> THEN <<>>
        ELSE IF hits = {} THEN <<all[Len(all)]>>
        ELSE <<all[CHOOSE i \in hits : \A j \in hits : i <= j]>>

\* Optional[Dict]: <<>> is None, <<e>> is the event found
_find_escalation_by_id(store, escalation_id) ==
    LET all == AllEvents(store)
        hits == {i \in DOMAIN all : all[i].escalation_id = escalation_id}
    IN  IF hits = {} THEN <<>>
        ELSE <<all[CHOOSE i \in hits : \A j \in hits : i <= j]>>

\* an assignment to a key of the dict that escalation_id refers to
StoreEvent(store, e2) ==
    [i \in DOMAIN store |->
        [store[i] EXCEPT !.events =
            [j \in DOMAIN @ |->
                IF @[j].escalation_id = e2.escalation_id THEN e2 ELSE @[j]]]]

EventOf(store, escalation_id) == _find_escalation_by_id(store, escalation_id)[1]

-----------------------------------------------------------------------------
(* _route_escalation *)

\* faulty variant: the physician branch does not look at the urgency
RoutingFor_ignores_urgency(escalation_level, urgency) ==
    IF escalation_level = EMERGENCY THEN
        [routed_to |-> <<"emergency_department", "on_call_physician", "charge_nurse">>,
         delivery_methods |-> <<"sms_alert", "phone_call", "dashboard_notification">>,
         estimated_response_time |-> "5 minutes"]
    ELSE IF escalation_level = PHYSICIAN THEN
        [routed_to |-> <<"primary_care_physician", "charge_nurse">>,
         delivery_methods |-> <<"dashboard_notification", "email">>,
         estimated_response_time |-> "1 hour"]
    ELSE IF escalation_level = SPECIALIST THEN
        [routed_to |-> <<"specialist", "primary_care_physician">>,
         delivery_methods |-> <<"dashboard_notification", "email">>,
         estimated_response_time |-> "4 hours"]
    ELSE
        [routed_to |-> <<"charge_nurse", "case_manager">>,
         delivery_methods |-> <<"dashboard_notification">>,
         estimated_response_time |-> "2 hours"]

RoutingFor(escalation_level, urgency) ==
    IF escalation_level = EMERGENCY THEN
        [routed_to |-> <<"emergency_department", "on_call_physician", "charge_nurse">>,
         delivery_methods |-> <<"sms_alert", "phone_call", "dashboard_notification">>,
         estimated_response_time |-> "5 minutes"]
    ELSE IF escalation_level = PHYSICIAN THEN
        IF urgency = "immediate" THEN
            [routed_to |-> <<"primary_care_physician", "charge_nurse">>,
             delivery_methods |-> <<"phone_call", "dashboard_notification", "sms_alert">>,
             estimated_response_time |-> "15 minutes"]
        ELSE
            [routed_to |-> <<"primary_care_physician", "charge_nurse">>,
             delivery_methods |-> <<"dashboard_notification", "email">>,
             estimated_response_time |-> "1 hour"]
    ELSE IF escalation_level = SPECIALIST THEN
        [routed_to |-> <<"specialist", "primary_care_physician">>,
         delivery_methods |-> <<"dashboard_notification", "email">>,
         estimated_response_time |-> "4 hours"]
    ELSE
        [routed_to |-> <<"charge_nurse", "case_manager">>,
         delivery_methods |-> <<"dashboard_notification">>,
         estimated_response_time |-> "2 hours"]

_route_escalation(escalation_event) ==
    LET r == RoutingFor(escalation_event.escalation_level, escalation_event.urgency)
    IN  [escalation_id |-> escalation_event.escalation_id,
         routed_to |-> r.routed_to,
         delivery_methods |-> r.delivery_methods,
         estimated_response_time |-> r.estimated_response_time]

-----------------------------------------------------------------------------
(* create_escalation_event *)

\* the dict literal of lines 210-240; routing_info is not a key of it yet
NewEvent(escalation_id, patient_id, escalation_trigger, t) ==
    [escalation_id |-> escalation_id,
     patient_id |-> patient_id,
     created_at |-> t,
     trigger_type |-> escalation_trigger.trigger_type,
     escalation_level |-> escalation_trigger.escalation_level,
     urgency |-> escalation_trigger.urgency,
     status |-> PENDING,
     title |-> TemplateTitle(escalation_trigger.template),
     message |-> <<escalation_trigger.template, patient_id>>,
     assigned_to |-> None,
     acknowledged_at |-> NoneTime,
     acknowledged_by |-> Absent,
     acknowledgment_notes |-> Absent,
     resolved_at |-> NoneTime,
     resolved_by |-> Absent,
     resolution_notes |-> None,
     follow_up_required |-> TRUE,
     follow_up_date |-> t + CreateFollowUpHours,
     routing_info |-> <<>>]

\* lines 243-245: the patient's list is created on first use, then appended to
AppendEvent(store, patient_id, e) ==
    LET s == IF HasPatient(store, patient_id) THEN store
             ELSE Append(store, [patient_id |-> patient_id, events |-> <<>>])
    IN  [i \in DOMAIN s |->
            IF s[i].patient_id = patient_id
            THEN [s[i] EXCEPT !.events = Append(@, e)]
            ELSE s[i]]

SetRoutingInfo(e) == [e EXCEPT !.routing_info = _route_escalation(e)]

create_escalation_event(patient_id, escalation_trigger) ==
    /\ next_id <= MaxEvents
    /\ LET e == NewEvent(next_id, patient_id, escalation_trigger, now)
           routed == SetRoutingInfo(e)
       IN  /\ escalation_events' = StoreEvent(AppendEvent(escalation_events, patient_id, e), routed)
           /\ result' = [op |-> "create", escalation_id |-> next_id, outcome |-> PENDING]
    /\ next_id' = next_id + 1
    /\ UNCHANGED <<now, pc, frame, observed, routing_case, dashboard_data, assessment, trigger_check, report>>

-----------------------------------------------------------------------------
(* acknowledge_escalation: the four assignments of lines 305-308 *)

\* faulty variant: acknowledging puts the event in progress
AckSetStatus_in_progress(e) == [e EXCEPT !.status = IN_PROGRESS]

AckSetStatus(e) == [e EXCEPT !.status = ACKNOWLEDGED]
AckSetAt(e, t) == [e EXCEPT !.acknowledged_at = t]
AckSetBy(e, acknowledged_by) == [e EXCEPT !.acknowledged_by = acknowledged_by]
AckSetNotes(e, notes) == [e EXCEPT !.acknowledgment_notes = notes]

AckWrites(e, t, acknowledged_by, notes) ==
    AckSetNotes(AckSetBy(AckSetAt(AckSetStatus(e), t), acknowledged_by), notes)

acknowledge_escalation(escalation_id, acknowledged_by, notes) ==
    /\ LET found == _find_escalation_by_id(escalation_events, escalation_id)
       IN  IF found = <<>>
           THEN /\ result' = [op |-> "acknowledge", escalation_id |-> escalation_id, outcome |-> NotFound]
                /\ UNCHANGED escalation_events
           ELSE /\ escalation_events' =
                       StoreEvent(escalation_events,
                                  AckWrites(found[1], now, acknowledged_by, notes))
                /\ result' = [op |-> "acknowledge", escalation_id |-> escalation_id,
                              outcome |-> ACKNOWLEDGED]
    /\ UNCHANGED <<now, next_id, pc, frame, observed, routing_case, dashboard_data, assessment, trigger_check, report>>

-----------------------------------------------------------------------------
(* resolve_escalation: the assignments of lines 328-335 *)

\* faulty variant: resolving routes the event again, as one that is no longer immediate
ResSetStatus_reroutes(e) ==
    [e EXCEPT !.status = RESOLVED,
              !.routing_info = _route_escalation([e EXCEPT !.urgency = "routine"])]

ResSetStatus(e) == [e EXCEPT !.status = RESOLVED]
ResSetAt(e, t) == [e EXCEPT !.resolved_at = t]
ResSetBy(e, resolved_by) == [e EXCEPT !.resolved_by = resolved_by]
ResSetNotes(e, resolution_notes) == [e EXCEPT !.resolution_notes = resolution_notes]
ResSetFollowUpRequired(e, follow_up_required) ==
    [e EXCEPT !.follow_up_required = follow_up_required]
\* lines 334-335: the date is written only when follow_up_required is true
ResSetFollowUpDate(e, follow_up_required, t) ==
    IF follow_up_required
    THEN [e EXCEPT !.follow_up_date = t + ResolveFollowUpHours]
    ELSE e

ResWrites(e, t, resolved_by, resolution_notes, follow_up_required) ==
    ResSetFollowUpDate(
        ResSetFollowUpRequired(
            ResSetNotes(ResSetBy(ResSetAt(ResSetStatus(e), t), resolved_by),
                        resolution_notes),
            follow_up_required),
        follow_up_required, t)

resolve_escalation(escalation_id, resolved_by, resolution_notes, follow_up_required) ==
    /\ LET found == _find_escalation_by_id(escalation_events, escalation_id)
       IN  IF found = <<>>
           THEN /\ result' = [op |-> "resolve", escalation_id |-> escalation_id, outcome |-> NotFound]
                /\ UNCHANGED escalation_events
           ELSE /\ escalation_events' =
                       StoreEvent(escalation_events,
                                  ResWrites(found[1], now, resolved_by, resolution_notes,
                                            follow_up_required))
                /\ result' = [op |-> "resolve", escalation_id |-> escalation_id,
                              outcome |-> RESOLVED]
    /\ UNCHANGED <<now, next_id, pc, frame, observed, routing_case, dashboard_data, assessment, trigger_check, report>>

-----------------------------------------------------------------------------
(* get_patient_escalations *)

\* list.sort(key=created_at, reverse=True): stable, most recent first
RECURSIVE SortByCreatedDesc(_)
SortByCreatedDesc(events) ==
    IF events = <<>> THEN <<>>
    ELSE LET front == SortByCreatedDesc(SubSeq(events, 1, Len(events) - 1))
             e == events[Len(events)]
             k == Cardinality({i \in DOMAIN front : front[i].created_at >= e.created_at})
         IN  SubSeq(front, 1, k) \o <<e>> \o SubSeq(front, k + 1, Len(front))

FilterByStatus(events, status) == SelectSeq(events, LAMBDA e : e.status = status)

\* the list the call returns
PatientEscalations(store, patient_id, status) ==
    IF ~HasPatient(store, patient_id) THEN <<>>
    ELSE LET own == store[CHOOSE i \in DOMAIN store : store[i].patient_id = patient_id].events
         IN  IF status # None THEN SortByCreatedDesc(FilterByStatus(own, status))
             ELSE SortByCreatedDesc(own)

\* faulty variant: the filtered list is written back to the store
StoreAfterPatientEscalations_filtered(store, patient_id, status) ==
    [i \in DOMAIN store |->
        IF store[i].patient_id = patient_id
        THEN [store[i] EXCEPT !.events = PatientEscalations(store, patient_id, status)]
        ELSE store[i]]

\* the store after the call: without a status filter the sort runs on the stored
\* list itself; with one it runs on a copy
StoreAfterPatientEscalations(store, patient_id, status) ==
    IF HasPatient(store, patient_id) /\ status = None
    THEN [i \in DOMAIN store |->
            IF store[i].patient_id = patient_id
            THEN [store[i] EXCEPT !.events = SortByCreatedDesc(@)]
            ELSE store[i]]
    ELSE store

get_patient_escalations(patient_id, status) ==
    /\ escalation_events' = StoreAfterPatientEscalations(escalation_events, patient_id, status)
    /\ UNCHANGED <<now, next_id, result, pc, frame, observed, routing_case, dashboard_data, assessment, trigger_check, report>>

-----------------------------------------------------------------------------
(* The clock *)

Tick ==
    /\ now < MaxTime
    /\ now' = now + 1
    /\ UNCHANGED <<escalation_events, next_id, result, pc, frame, observed, routing_case, dashboard_data, assessment, trigger_check, report>>

-----------------------------------------------------------------------------
(* The service driven one call at a time *)

IdInputs == {UnknownId} \cup (1..MaxEvents)
PatientInputs == {"P0007", "P0008"}
StatusFilters == {None, RESOLVED}

NoFrame ==
    [op |-> "none", escalation_id |-> UnknownId, by |-> None, notes |-> None,
     follow_up_required |-> FALSE, wrote_at |-> NoneTime, wrote_date |-> NoneTime,
     outcome |-> None, returned_at |-> NoneTime]
NoObservation == <<>>

Init ==
    /\ escalation_events = <<>>
    /\ now = 0
    /\ next_id = 1
    /\ result = [op |-> "none", escalation_id |-> UnknownId, outcome |-> None]
    /\ pc = [t \in Threads |-> "idle"]
    /\ frame = [t \in Threads |-> NoFrame]
    /\ observed = NoObservation
    /\ routing_case = <<>>
    /\ dashboard_data = <<>>
    /\ assessment = <<>>
    /\ trigger_check = <<>>
    /\ report = <<>>

Create == \E rq \in CreateRequests : create_escalation_event(rq[1], rq[2])
Acknowledge ==
    \E id \in IdInputs, rq \in AckRequests :
        acknowledge_escalation(id, rq[1], rq[2])
Resolve ==
    \E id \in IdInputs, rq \in ResolveRequests :
        resolve_escalation(id, rq[1], rq[2], rq[3])

GetPatientEscalations ==
    \E p \in PatientInputs, st \in StatusFilters : get_patient_escalations(p, st)

Next ==
    \/ Create \/ Acknowledge \/ Resolve \/ Tick
    \/ GetPatientEscalations

Spec == Init /\ [][Next]_vars

-----------------------------------------------------------------------------
(* The request handlers on the server's thread pool.                       *)
(* The routes are plain (non-async) functions, so each request runs on its *)
(* own worker thread against the one module-level escalation_service; the  *)
(* service takes no lock, and a thread switch can fall between any two     *)
(* statements of a handler.  Each thread serves one transition request.    *)

Goto(t, label) == pc' = [pc EXCEPT ![t] = label]

\* acknowledge route, line 299: look the event up
AckCall(t, escalation_id, acknowledged_by, notes) ==
    /\ pc[t] = "idle"
    /\ LET found == _find_escalation_by_id(escalation_events, escalation_id)
           f == [NoFrame EXCEPT !.op = "acknowledge", !.escalation_id = escalation_id,
                                !.by = acknowledged_by, !.notes = notes]
       IN  IF found = <<>>
           THEN /\ frame' = [frame EXCEPT ![t] = [f EXCEPT !.outcome = NotFound]]
                /\ Goto(t, "done")
           ELSE /\ frame' = [frame EXCEPT ![t] = f]
                /\ Goto(t, "ack_305")
    /\ UNCHANGED <<escalation_events, now, next_id, result, observed, routing_case, dashboard_data, assessment, trigger_check, report>>

Ack305(t) ==
    /\ pc[t] = "ack_305"
    /\ escalation_events' =
           StoreEvent(escalation_events,
                      AckSetStatus(EventOf(escalation_events, frame[t].escalation_id)))
    /\ Goto(t, "ack_306")
    /\ UNCHANGED <<now, next_id, result, frame, observed, routing_case, dashboard_data, assessment, trigger_check, report>>

Ack306(t) ==
    /\ pc[t] = "ack_306"
    /\ escalation_events' =
           StoreEvent(escalation_events,
                      AckSetAt(EventOf(escalation_events, frame[t].escalation_id), now))
    /\ frame' = [frame EXCEPT ![t].wrote_at = now]
    /\ Goto(t, "ack_307")
    /\ UNCHANGED <<now, next_id, result, observed, routing_case, dashboard_data, assessment, trigger_check, report>>

Ack307(t) ==
    /\ pc[t] = "ack_307"
    /\ escalation_events' =
           StoreEvent(escalation_events,
                      AckSetBy(EventOf(escalation_events, frame[t].escalation_id),
                               frame[t].by))
    /\ Goto(t, "ack_308")
    /\ UNCHANGED <<now, next_id, result, frame, observed, routing_case, dashboard_data, assessment, trigger_check, report>>

Ack308(t) ==
    /\ pc[t] = "ack_308"
    /\ escalation_events' =
           StoreEvent(escalation_events,
                      AckSetNotes(EventOf(escalation_events, frame[t].escalation_id),
                                  frame[t].notes))
    /\ Goto(t, "ack_310")
    /\ UNCHANGED <<now, next_id, result, frame, observed, routing_case, dashboard_data, assessment, trigger_check, report>>

\* lines 310-316: the returned dict reads acknowledged_at back from the event
Ack310(t) ==
    /\ pc[t] = "ack_310"
    /\ frame' = [frame EXCEPT
                    ![t].outcome = ACKNOWLEDGED,
                    ![t].returned_at =
                        EventOf(escalation_events, frame[t].escalation_id).acknowledged_at]
    /\ Goto(t, "done")
    /\ UNCHANGED <<escalation_events, now, next_id, result, observed, routing_case, dashboard_data, assessment, trigger_check, report>>

\* resolve route, line 322: look the event up
ResCall(t, escalation_id, resolved_by, resolution_notes, follow_up_required) ==
    /\ pc[t] = "idle"
    /\ LET found == _find_escalation_by_id(escalation_events, escalation_id)
           f == [NoFrame EXCEPT !.op = "resolve", !.escalation_id = escalation_id,
                                !.by = resolved_by, !.notes = resolution_notes,
                                !.follow_up_required = follow_up_required]
       IN  IF found = <<>>
           THEN /\ frame' = [frame EXCEPT ![t] = [f EXCEPT !.outcome = NotFound]]
                /\ Goto(t, "done")
           ELSE /\ frame' = [frame EXCEPT ![t] = f]
                /\ Goto(t, "res_328")
    /\ UNCHANGED <<escalation_events, now, next_id, result, observed, routing_case, dashboard_data, assessment, trigger_check, report>>

Res328(t) ==
    /\ pc[t] = "res_328"
    /\ escalation_events' =
           StoreEvent(escalation_events,
                      ResSetStatus(EventOf(escalation_events, frame[t].escalation_id)))
    /\ Goto(t, "res_329")
    /\ UNCHANGED <<now, next_id, result, frame, observed, routing_case, dashboard_data, assessment, trigger_check, report>>

Res329(t) ==
    /\ pc[t] = "res_329"
    /\ escalation_events' =
           StoreEvent(escalation_events,
                      ResSetAt(EventOf(escalation_events, frame[t].escalation_id), now))
    /\ frame' = [frame EXCEPT ![t].wrote_at = now]
    /\ Goto(t, "res_330")
    /\ UNCHANGED <<now, next_id, result, observed, routing_case, dashboard_data, assessment, trigger_check, report>>

Res330(t) ==
    /\ pc[t] = "res_330"
    /\ escalation_events' =
           StoreEvent(escalation_events,
                      ResSetBy(EventOf(escalation_events, frame[t].escalation_id),
                               frame[t].by))
    /\ Goto(t, "res_331")
    /\ UNCHANGED <<now, next_id, result, frame, observed, routing_case, dashboard_data, assessment, trigger_check, report>>

Res331(t) ==
    /\ pc[t] = "res_331"
    /\ escalation_events' =
           StoreEvent(escalation_events,
                      ResSetNotes(EventOf(escalation_events, frame[t].escalation_id),
                                  frame[t].notes))
    /\ Goto(t, "res_332")
    /\ UNCHANGED <<now, next_id, result, frame, observed, routing_case, dashboard_data, assessment, trigger_check, report>>

Res332(t) ==
    /\ pc[t] = "res_332"
    /\ escalation_events' =
           StoreEvent(escalation_events,
                      ResSetFollowUpRequired(
                          EventOf(escalation_events, frame[t].escalation_id),
                          frame[t].follow_up_required))
    /\ Goto(t, "res_334")
    /\ UNCHANGED <<now, next_id, result, frame, observed, routing_case, dashboard_data, assessment, trigger_check, report>>

Res334(t) ==
    /\ pc[t] = "res_334"
    /\ escalation_events' =
           StoreEvent(escalation_events,
                      ResSetFollowUpDate(
                          EventOf(escalation_events, frame[t].escalation_id),
                          frame[t].follow_up_required, now))
    /\ frame' = [frame EXCEPT ![t].wrote_date =
                    IF frame[t].follow_up_required THEN now + ResolveFollowUpHours
                    ELSE NoneTime]
    /\ Goto(t, "res_337")
    /\ UNCHANGED <<now, next_id, result, observed, routing_case, dashboard_data, assessment, trigger_check, report>>

\* lines 337-344: the returned dict reads resolved_at back from the event
Res337(t) ==
    /\ pc[t] = "res_337"
    /\ frame' = [frame EXCEPT
                    ![t].outcome = RESOLVED,
                    ![t].returned_at =
                        EventOf(escalation_events, frame[t].escalation_id).resolved_at]
    /\ Goto(t, "done")
    /\ UNCHANGED <<escalation_events, now, next_id, result, observed, routing_case, dashboard_data, assessment, trigger_check, report>>

\* a read request (get by id, or one element of the active list, the dashboard
\* or the report) looks at an event of the store
ReadEvent(escalation_id) ==
    /\ _find_escalation_by_id(escalation_events, escalation_id) # <<>>
    /\ observed' = _find_escalation_by_id(escalation_events, escalation_id)
    /\ UNCHANGED <<escalation_events, now, next_id, result, pc, frame, routing_case, dashboard_data, assessment, trigger_check, report>>

ThreadAckCall ==
    \E t \in Threads, id \in IdInputs, rq \in AckRequests : AckCall(t, id, rq[1], rq[2])
ThreadResCall ==
    \E t \in Threads, id \in IdInputs, rq \in ResolveRequests :
        ResCall(t, id, rq[1], rq[2], rq[3])
ThreadAck305 == \E t \in Threads : Ack305(t)
ThreadAck306 == \E t \in Threads : Ack306(t)
ThreadAck307 == \E t \in Threads : Ack307(t)
ThreadAck308 == \E t \in Threads : Ack308(t)
ThreadAck310 == \E t \in Threads : Ack310(t)
ThreadRes328 == \E t \in Threads : Res328(t)
ThreadRes329 == \E t \in Threads : Res329(t)
ThreadRes330 == \E t \in Threads : Res330(t)
ThreadRes331 == \E t \in Threads : Res331(t)
ThreadRes332 == \E t \in Threads : Res332(t)
ThreadRes334 == \E t \in Threads : Res334(t)
ThreadRes337 == \E t \in Threads : Res337(t)
Read == \E id \in IdInputs : ReadEvent(id)

NextConc ==
    \/ Create \/ Tick \/ Read
    \/ ThreadAckCall \/ ThreadAck305 \/ ThreadAck306 \/ ThreadAck307 \/ ThreadAck308
    \/ ThreadAck310
    \/ ThreadResCall \/ ThreadRes328 \/ ThreadRes329 \/ ThreadRes330 \/ ThreadRes331
    \/ ThreadRes332 \/ ThreadRes334 \/ ThreadRes337

SpecConc == Init /\ [][NextConc]_vars

-----------------------------------------------------------------------------
(* The routing matrix applied to two events of any level and urgency *)

Levels == {NURSE, PHYSICIAN, SPECIALIST, EMERGENCY}
Urgencies == {"immediate", "urgent", "routine"}

\* an event as _route_escalation leaves it: the keys it reads and routing_info
Routed(escalation_id, escalation_level, urgency) ==
    LET e == [escalation_id |-> escalation_id, escalation_level |-> escalation_level,
              urgency |-> urgency]
    IN  [escalation_id |-> escalation_id, escalation_level |-> escalation_level,
         urgency |-> urgency, routing_info |-> _route_escalation(e)]

RouteEvents ==
    /\ \E l1 \in Levels, u1 \in Urgencies, l2 \in Levels, u2 \in Urgencies :
           routing_case' = <<Routed(1, l1, u1), Routed(2, l2, u2)>>
    /\ UNCHANGED <<escalation_events, now, next_id, result, pc, frame, observed,
                   dashboard_data, assessment, trigger_check, report>>

SpecRouting == Init /\ [][RouteEvents]_vars

-----------------------------------------------------------------------------
(* check_escalation_triggers                                               *)
(* Risk scores and the raw adherence score are counted in tenths of a      *)
(* point and probabilities in thousandths, the precision the scoring       *)
(* services round them to; arithmetic on them is exact decimal arithmetic. *)
(* A key that a dict does not have is Missing.                             *)

Missing == -1

\* dict.get(key, default)
Get(value, default) == IF value = Missing THEN default ELSE value

\* escalation_rules, lines 47-68
risk_score_threshold_high == 70
risk_score_threshold_critical == 85
rapid_increase_threshold == 15
adherence_critical_threshold == 30
\* 0.7, in thousandths
no_show_critical_threshold == 700
\* the literal of line 150
vitals_risk_threshold == 50

\* the other triggers check_escalation_triggers builds
HighRiskTrigger ==
    [trigger_type |-> "high_risk_score", escalation_level |-> NURSE,
     urgency |-> "urgent", template |-> "high_risk"]
RapidIncreaseTrigger ==
    [trigger_type |-> "rapid_risk_increase", escalation_level |-> PHYSICIAN,
     urgency |-> "urgent", template |-> "rapid_deterioration"]
CriticalVitalsTrigger ==
    [trigger_type |-> "critical_vitals", escalation_level |-> EMERGENCY,
     urgency |-> "immediate", template |-> "critical_vitals"]
HighNoShowTrigger ==
    [trigger_type |-> "high_no_show_risk", escalation_level |-> NURSE,
     urgency |-> "routine", template |-> "missed_appointment_risk"]

\* faulty variant: the second test is an if of its own, not an elif
RiskScoreTriggers_both(current_risk_score) ==
    (IF current_risk_score >= risk_score_threshold_critical * 10
     THEN <<CriticalRiskTrigger>> ELSE <<>>)
    \o (IF current_risk_score >= risk_score_threshold_high * 10
        THEN <<HighRiskTrigger>> ELSE <<>>)

\* lines 113-129
RiskScoreTriggers(current_risk_score) ==
    IF current_risk_score >= risk_score_threshold_critical * 10
    THEN <<CriticalRiskTrigger>>
    ELSE IF current_risk_score >= risk_score_threshold_high * 10
         THEN <<HighRiskTrigger>>
         ELSE <<>>

\* faulty variant: the increase has to exceed the threshold
RapidIncreaseTriggers_strict(current_risk_score, previous_risk_assessment) ==
    IF previous_risk_assessment = <<>> THEN <<>>
    ELSE LET previous_score == Get(previous_risk_assessment[1].overall_risk_score, 0)
             risk_increase == current_risk_score - previous_score
         IN  IF risk_increase > rapid_increase_threshold * 10
             THEN <<RapidIncreaseTrigger>> ELSE <<>>

\* lines 131-144; previous_risk_assessment is <<>> when None (or empty), else <<dict>>
RapidIncreaseTriggers(current_risk_score, previous_risk_assessment) ==
    IF previous_risk_assessment = <<>> THEN <<>>
    ELSE LET previous_score == Get(previous_risk_assessment[1].overall_risk_score, 0)
             risk_increase == current_risk_score - previous_score
         IN  IF risk_increase >= rapid_increase_threshold * 10
             THEN <<RapidIncreaseTrigger>> ELSE <<>>

\* lines 146-158
CriticalVitalsTriggers(component_risks) ==
    IF Get(component_risks.vitals_stability.risk_score, 0) > vitals_risk_threshold * 10
    THEN <<CriticalVitalsTrigger>> ELSE <<>>

\* lines 160-172
AdherenceCrisisTriggers(component_risks) ==
    LET adherence_score == Get(component_risks.adherence.adherence_score, 100 * 10)
    IN  IF adherence_score < adherence_critical_threshold * 10
        THEN <<AdherenceCrisisTrigger>> ELSE <<>>

\* lines 174-186
NoShowTriggers(component_risks) ==
    LET no_show_prob == Get(component_risks.no_show_prediction.no_show_probability, 0)
    IN  IF no_show_prob >= no_show_critical_threshold
        THEN <<HighNoShowTrigger>> ELSE <<>>

\* faulty variant: the list is returned as soon as one rule has fired
check_escalation_triggers_first(current_risk_assessment, previous_risk_assessment) ==
    LET current_risk_score == Get(current_risk_assessment.overall_risk_score, 0)
        component_risks == current_risk_assessment.component_risks
        rules == << RiskScoreTriggers(current_risk_score),
                    RapidIncreaseTriggers(current_risk_score, previous_risk_assessment),
                    CriticalVitalsTriggers(component_risks),
                    AdherenceCrisisTriggers(component_risks),
                    NoShowTriggers(component_risks) >>
        fired == {i \in DOMAIN rules : rules[i] # <<>>}
    IN  IF fired = {} THEN <<>>
        ELSE rules[CHOOSE i \in fired : \A j \in fired : i <= j]

\* the escalations list, in the order the rules append to it
check_escalation_triggers(current_risk_assessment, previous_risk_assessment) ==
    LET current_risk_score == Get(current_risk_assessment.overall_risk_score, 0)
        component_risks == current_risk_assessment.component_risks
    IN  RiskScoreTriggers(current_risk_score)
        \o RapidIncreaseTriggers(current_risk_score, previous_risk_assessment)
        \o CriticalVitalsTriggers(component_risks)
        \o AdherenceCrisisTriggers(component_risks)
        \o NoShowTriggers(component_risks)

\* a risk assessment as the trigger check reads it
RiskAssessment(overall_risk_score, vitals_risk_score, adherence_score, no_show_probability) ==
    [overall_risk_score |-> overall_risk_score,
     component_risks |->
        [vitals_stability |-> [risk_score |-> vitals_risk_score],
         adherence |-> [adherence_score |-> adherence_score],
         no_show_prediction |-> [no_show_probability |-> no_show_probability]]]

-----------------------------------------------------------------------------
(* The check-triggers route: one event is created for each trigger found *)

\* routes/escalation.py lines 53-60: the store after create_escalation_event has
\* run for each trigger in turn, the events taking the ids first_id, first_id + 1, ..
RECURSIVE CreateEach(_, _, _, _, _)
CreateEach(store, first_id, patient_id, triggers, t) ==
    IF triggers = <<>> THEN store
    ELSE LET e == NewEvent(first_id, patient_id, Head(triggers), t)
             stored == StoreEvent(AppendEvent(store, patient_id, e), SetRoutingInfo(e))
         IN  CreateEach(stored, first_id + 1, patient_id, Tail(triggers), t)

-----------------------------------------------------------------------------
(* get_active_escalations and get_escalation_dashboard_data *)

ActiveStatuses == {PENDING, ACKNOWLEDGED, IN_PROGRESS}

\* urgency_order.get(urgency, 3)
urgency_order(urgency) ==
    CASE urgency = "immediate" -> 0
      [] urgency = "urgent" -> 1
      [] urgency = "routine" -> 2
      [] OTHER -> 3

\* faulty variant: the key is the creation time alone
ActiveKeyLE_created_only(a, b) == a.created_at <= b.created_at

\* the sort key of line 384 compared as Python compares tuples
ActiveKeyLE(a, b) ==
    \/ urgency_order(a.urgency) < urgency_order(b.urgency)
    \/ /\ urgency_order(a.urgency) = urgency_order(b.urgency)
       /\ a.created_at <= b.created_at

\* list.sort(key=...): stable, ascending
RECURSIVE SortByUrgencyThenCreated(_)
SortByUrgencyThenCreated(events) ==
    IF events = <<>> THEN <<>>
    ELSE LET front == SortByUrgencyThenCreated(SubSeq(events, 1, Len(events) - 1))
             e == events[Len(events)]
             k == Cardinality({i \in DOMAIN front : ActiveKeyLE(front[i], e)})
         IN  SubSeq(front, 1, k) \o <<e>> \o SubSeq(front, k + 1, Len(front))

\* the list get_active_escalations returns
ActiveEscalations(store, escalation_level) ==
    SortByUrgencyThenCreated(
        SelectSeq(AllEvents(store),
                  LAMBDA e : /\ e.status \in ActiveStatuses
                             /\ (escalation_level = None
                                 \/ e.escalation_level = escalation_level)))

get_active_escalations(escalation_level) ==
    /\ observed' = ActiveEscalations(escalation_events, escalation_level)
    /\ result' = [op |-> "get_active_escalations", escalation_id |-> UnknownId,
                  outcome |-> "success"]
    /\ UNCHANGED <<escalation_events, now, next_id, pc, frame, routing_case,
                   dashboard_data, assessment, trigger_check, report>>

RecentHours == 24
OverdueHours == 24
ActiveLimit == 20
RecentLimit == 10

FirstN(seq, n) == SubSeq(seq, 1, IF Len(seq) < n THEN Len(seq) ELSE n)

\* the dict get_escalation_dashboard_data returns when the clock reads t (the
\* by_status, by_level and by_urgency counts and the 7-day trends are left out)
DashboardData(store, t) ==
    LET active_escalations == ActiveEscalations(store, None)
        recent_escalations ==
            SelectSeq(AllEvents(store), LAMBDA e : e.created_at >= t - RecentHours)
        overdue_escalations ==
            SelectSeq(active_escalations, LAMBDA e : e.created_at <= t - OverdueHours)
    IN  [summary |-> [total_active |-> Len(active_escalations),
                      overdue_count |-> Len(overdue_escalations),
                      last_updated |-> t],
         active_escalations |-> FirstN(active_escalations, ActiveLimit),
         recent_escalations |-> FirstN(SortByCreatedDesc(recent_escalations), RecentLimit),
         overdue_escalations |-> overdue_escalations]

get_escalation_dashboard_data ==
    /\ dashboard_data' = DashboardData(escalation_events, now)
    /\ UNCHANGED <<escalation_events, now, next_id, result, pc, frame, observed,
                   routing_case, assessment, trigger_check, report>>

-----------------------------------------------------------------------------
(* The reads applied to the stores that check-triggers, acknowledge and    *)
(* resolve requests leave behind                                           *)

\* the check-triggers requests of a history: <<patient_id, current, previous>>
DashRequests ==
    { <<"P0007", RiskAssessment(720, 600, Missing, Missing), <<>> >>,
      <<"P0008", RiskAssessment(900, Missing, 250, Missing),
                 <<RiskAssessment(700, Missing, Missing, Missing)>> >>,
      <<"P0007", RiskAssessment(400, Missing, Missing, 800), <<>> >> }

\* what the care team did with the events of a request in the hour they arrived
Followups == {"none", "acknowledge_first", "resolve_last", "resolve_all"}

HistoryLengths == {1, 2}

HistorySteps ==
    [request : DashRequests, at : 0..MaxTime, followup : Followups]

Histories ==
    UNION { {h \in [1..n -> HistorySteps] :
                \A i \in 1..(n - 1) : h[i].at <= h[i + 1].at} : n \in HistoryLengths }

RECURSIVE ResolveEach(_, _, _)
\* resolve_escalation for each id of ids at hour t
ResolveEach(store, ids, t) ==
    IF ids = {} THEN store
    ELSE LET id == CHOOSE i \in ids : \A j \in ids : i <= j
         IN  ResolveEach(
                 StoreEvent(store, ResWrites(EventOf(store, id), t, "dr_rao", "treated", FALSE)),
                 ids \ {id}, t)

\* the store after one step of a history: the request, then its follow-up
AfterStep(store, first_id, step) ==
    LET triggers == check_escalation_triggers(step.request[2], step.request[3])
        created == CreateEach(store, first_id, step.request[1], triggers, step.at)
        ids == first_id..(first_id + Len(triggers) - 1)
    IN  IF triggers = <<>> \/ step.followup = "none" THEN created
        ELSE IF step.followup = "acknowledge_first"
        THEN StoreEvent(created,
                        AckWrites(EventOf(created, first_id), step.at, "nurse_kim", None))
        ELSE IF step.followup = "resolve_last"
        THEN ResolveEach(created, {first_id + Len(triggers) - 1}, step.at)
        ELSE ResolveEach(created, ids, step.at)

RECURSIVE StoreAfterHistory(_, _)
StoreAfterHistory(history, n) ==
    IF n = 0 THEN <<>>
    ELSE LET before == StoreAfterHistory(history, n - 1)
         IN  AfterStep(before, Len(AllEvents(before)) + 1, history[n])

InitDashboard ==
    /\ \E history \in Histories :
           /\ escalation_events = StoreAfterHistory(history, Len(history))
           /\ now = history[Len(history)].at
    /\ next_id = Len(AllEvents(escalation_events)) + 1
    /\ result = [op |-> "none", escalation_id |-> UnknownId, outcome |-> None]
    /\ pc = [t \in Threads |-> "idle"]
    /\ frame = [t \in Threads |-> NoFrame]
    /\ observed = NoObservation
    /\ routing_case = <<>>
    /\ dashboard_data = <<>>
    /\ assessment = <<>>
    /\ trigger_check = <<>>
    /\ report = <<>>

\* hours in which no request arrives
WaitHours == {23, 24}
MaxClock == MaxTime + 24

Wait ==
    /\ \E h \in WaitHours :
           /\ now + h <= MaxClock
           /\ now' = now + h
    /\ UNCHANGED <<escalation_events, next_id, result, pc, frame, observed, routing_case,
                   dashboard_data, assessment, trigger_check, report>>

GetActiveEscalations == get_active_escalations(None)
GetDashboard == get_escalation_dashboard_data

NextDashboard == GetActiveEscalations \/ GetDashboard \/ Tick \/ Wait

SpecDashboard == InitDashboard /\ [][NextDashboard]_vars

-----------------------------------------------------------------------------
(* generate_escalation_report *)

\* round(x, 2) of the value x / (100 * per_hundredth), as a number of hundredths
Round2(x, per_hundredth) ==
    LET q == x \div per_hundredth
        r == x % per_hundredth
    IN  IF 2 * r > per_hundredth \/ (2 * r = per_hundredth /\ q % 2 = 1) THEN q + 1 ELSE q

RECURSIVE SumOfHours(_)
\* the sum of resolution_times, in hours
SumOfHours(events) ==
    IF events = <<>> THEN 0
    ELSE (Head(events).resolved_at - Head(events).created_at) + SumOfHours(Tail(events))

\* lines 476-494: the events the statistics are taken over; a date that is not
\* given is NoneTime and stands for datetime.min or datetime.max
FilteredEscalations(store, patient_id, start_date, end_date) ==
    LET chosen == IF patient_id # None THEN PatientEscalations(store, patient_id, None)
                  ELSE AllEvents(store)
    IN  IF start_date # NoneTime \/ end_date # NoneTime
        THEN SelectSeq(chosen,
                       LAMBDA e : /\ (start_date = NoneTime \/ start_date <= e.created_at)
                                  /\ (end_date = NoneTime \/ e.created_at <= end_date))
        ELSE chosen

\* faulty variant: the resolution times are taken over every event that was
\* acknowledged or resolved
ResolutionTimed_acknowledged(filtered_escalations) ==
    SelectSeq(filtered_escalations,
              LAMBDA e : e.resolved_at # NoneTime \/ e.acknowledged_at # NoneTime)

\* lines 501-506: the events that have a resolved_at
ResolutionTimed(filtered_escalations) ==
    SelectSeq(filtered_escalations, LAMBDA e : e.resolved_at # NoneTime)

\* the dict the call returns when the clock reads t (the counts by trigger type
\* are left out); resolution_rate is the fraction <<numerator, denominator>> of
\* the percentage, average_resolution_time_hours is in hundredths of an hour
EscalationReport(store, patient_id, start_date, end_date, t) ==
    LET filtered_escalations == FilteredEscalations(store, patient_id, start_date, end_date)
        total_escalations == Len(filtered_escalations)
        resolved_count == Len(FilterByStatus(filtered_escalations, RESOLVED))
        timed == ResolutionTimed(filtered_escalations)
    IN  [report_parameters |->
            [patient_id |-> patient_id, start_date |-> start_date, end_date |-> end_date,
             generated_at |-> t],
         summary |->
            [total_escalations |-> total_escalations,
             resolved_count |-> resolved_count,
             resolution_rate |->
                 IF total_escalations > 0 THEN <<resolved_count * 100, total_escalations>>
                 ELSE <<0, 1>>,
             average_resolution_time_hours |->
                 IF timed # <<>> THEN Round2(SumOfHours(timed) * 100, Len(timed)) ELSE 0,
             active_escalations |->
                 Len(SelectSeq(filtered_escalations, LAMBDA e : e.status # RESOLVED))],
         detailed_escalations |-> SortByCreatedDesc(filtered_escalations)]

\* lines 472-532; with a patient_id the events come from get_patient_escalations,
\* which sorts the stored list
generate_escalation_report(patient_id, start_date, end_date) ==
    /\ report' = EscalationReport(escalation_events, patient_id, start_date, end_date, now)
    /\ escalation_events' =
           IF patient_id # None
           THEN StoreAfterPatientEscalations(escalation_events, patient_id, None)
           ELSE escalation_events
    /\ UNCHANGED <<now, next_id, result, pc, frame, observed, routing_case,
                   dashboard_data, assessment, trigger_check>>

-----------------------------------------------------------------------------
(* Reads and reports against the stores that earlier requests left behind, *)
(* while the first event is acknowledged and resolved                      *)

\* <<start_date, end_date>> of the report requests explored
ReportRanges == { <<NoneTime, NoneTime>>, <<0, 0>>, <<1, NoneTime>>, <<NoneTime, 0>> }

GenerateReport ==
    \E patient_id \in {None} \cup PatientInputs, range \in ReportRanges :
        generate_escalation_report(patient_id, range[1], range[2])

NextReads ==
    \/ GetPatientEscalations \/ GetActiveEscalations \/ GetDashboard \/ GenerateReport

SpecReads == InitDashboard /\ [][NextReads]_vars

\* the stores a report is asked of: the events of one request made at hour 0
ReportStores ==
    { StoreAfterHistory(h, 1) :
        h \in {g \in Histories : /\ Len(g) = 1 /\ g[1].at = 0
                                 /\ g[1].followup \in {"none", "resolve_last"}} }

InitReport ==
    /\ escalation_events \in ReportStores
    /\ now = 0
    /\ next_id = Len(AllEvents(escalation_events)) + 1
    /\ result = [op |-> "none", escalation_id |-> UnknownId, outcome |-> None]
    /\ pc = [t \in Threads |-> "idle"]
    /\ frame = [t \in Threads |-> NoFrame]
    /\ observed = NoObservation
    /\ routing_case = <<>>
    /\ dashboard_data = <<>>
    /\ assessment = <<>>
    /\ trigger_check = <<>>
    /\ report = <<>>

NextReport == Acknowledge \/ Resolve \/ Tick \/ GenerateReport

SpecReport == InitReport /\ [][NextReport]_vars

-----------------------------------------------------------------------------
(* check_escalation_triggers applied to the assessments of a request *)

\* overall scores (tenths) on both sides of the thresholds 70 and 85, and of an
\* increase of 15 over a previous score of 50
CurrentScores == {Missing, 100, 600, 649, 650, 680, 699, 700, 849, 850, 900}
VitalsRiskScores == {Missing, 500, 501}
AdherenceScores == {Missing, 299, 300}
NoShowProbabilities == {Missing, 699, 700}

CurrentAssessments ==
    { RiskAssessment(s, v, a, n) :
        s \in CurrentScores, v \in VitalsRiskScores,
        a \in AdherenceScores, n \in NoShowProbabilities }

\* None, a dict without a score, and an assessment with score 50
PreviousAssessments ==
    { <<>>,
      <<RiskAssessment(Missing, Missing, Missing, Missing)>>,
      <<RiskAssessment(500, Missing, Missing, Missing)>> }

CheckTriggers ==
    /\ \E current \in CurrentAssessments, previous \in PreviousAssessments :
           trigger_check' =
               [current_risk_assessment |-> current,
                previous_risk_assessment |-> previous,
                escalations |-> check_escalation_triggers(current, previous)]
    /\ UNCHANGED <<escalation_events, now, next_id, result, pc, frame, observed,
                   routing_case, dashboard_data, assessment, report>>

SpecTriggers == Init /\ [][CheckTriggers]_vars

-----------------------------------------------------------------------------
(* backend/services/deterioration_risk.py: PatientDeteriorationRiskService *)
(* Risk scores are counted in tenths of a point, the adherence overall     *)
(* score in tenths, probabilities in thousandths and condition severities  *)
(* in tenths; intermediate values are exact decimals in the finer unit     *)
(* their definition names.  round(x, 1) rounds the exact value to tenths,  *)
(* ties to even; the binary floating-point error of the interpreter, which *)
(* can move a value across a tie or a threshold, is outside the model, and *)
(* the inputs explored are ones on which both agree.                       *)

\* round(x, 1) of the value x / (10 * per_tenth), as a number of tenths
Round1(x, per_tenth) ==
    LET q == x \div per_tenth
        r == x % per_tenth
    IN  IF 2 * r > per_tenth \/ (2 * r = per_tenth /\ q % 2 = 1) THEN q + 1 ELSE q

Min(a, b) == IF a <= b THEN a ELSE b

\* risk_thresholds, lines 22-26: the lower ends of medium and high
risk_thresholds_medium == 30
risk_thresholds_high == 70

\* chronic_condition_severity.get(condition.lower(), 0.3), in tenths
chronic_condition_severity(condition) ==
    CASE condition = "diabetes" -> 7
      [] condition = "hypertension" -> 5
      [] condition = "heart_disease" -> 8
      [] condition = "kidney_disease" -> 9
      [] condition = "respiratory_disease" -> 6
      [] condition = "obesity" -> 4
      [] OTHER -> 3

\* what a collaborator call does: it raises, or it returns a dict
Raises == [raises |-> TRUE]
Returns(value) == [raises |-> FALSE, value |-> value]

\* a service argument left at None
NoService == [present |-> FALSE]

\* vitals_trends holds, of the entries of its 'trends' and 'abnormalities' dicts,
\* the number flagged trend_concern and is_abnormal; NoDict is None
NoDict == <<>>

\* lines 47-77; stability_score is Missing when None, vitals_trends is NoDict or <<dict>>
calculate_vitals_risk(stability_score, vitals_trends) ==
    LET score == Get(stability_score, 50)
        \* hundredths of a point
        base_risk == (100 - score) * 35
        trend_risk ==
            IF vitals_trends # NoDict /\ vitals_trends[1].trends # Missing
            THEN vitals_trends[1].trends * 5 * 100 ELSE 0
        abnormality_risk ==
            IF vitals_trends # NoDict /\ vitals_trends[1].abnormalities # Missing
            THEN vitals_trends[1].abnormalities * 8 * 100 ELSE 0
        total_vitals_risk == Min(100 * 100, base_risk + trend_risk + abnormality_risk)
    IN  [risk_score |-> Round1(total_vitals_risk, 10),
         base_stability_risk |-> Round1(base_risk, 10),
         trend_risk |-> Round1(trend_risk, 10),
         abnormality_risk |-> Round1(abnormality_risk, 10)]

\* lines 89-90: a bool severity counts as 1 or 0; severities are in tenths
SeverityOf(severity) ==
    IF "bool" \in DOMAIN severity
    THEN (IF severity.bool THEN 10 ELSE 0)
    ELSE severity.number

RECURSIVE ConditionRisk(_)
\* lines 85-93: condition_risk in hundredths of a point, summed over the dict's items
ConditionRisk(chronic_conditions) ==
    IF chronic_conditions = <<>> THEN 0
    ELSE LET item == Head(chronic_conditions)
         IN  chronic_condition_severity(item.condition) * SeverityOf(item.severity) * 20
             + ConditionRisk(Tail(chronic_conditions))

\* lines 101-110
AgeRisk(age) ==
    IF age >= 80 THEN 15
    ELSE IF age >= 70 THEN 10
    ELSE IF age >= 60 THEN 5
    ELSE IF age < 18 THEN 8
    ELSE 0

\* lines 79-122; total_chronic_risk in ten-thousandths of a point
calculate_chronic_conditions_risk(patient_data) ==
    LET age == Get(patient_data.age, 50)
        total_chronic_risk ==
            ConditionRisk(patient_data.chronic_conditions) * 25 + AgeRisk(age) * 1000
    IN  [risk_score |-> Round1(total_chronic_risk, 1000),
         condition_risk |-> Round1(ConditionRisk(patient_data.chronic_conditions) * 25, 1000),
         age_risk |-> Round1(AgeRisk(age) * 1000, 1000),
         age |-> age]

\* faulty variant: no adherence data scores as no risk
DefaultAdherenceRisk_zero ==
    [risk_score |-> 0, adherence_score |-> 500, adherence_level |-> Absent]

\* lines 128-133
DefaultAdherenceRisk ==
    [risk_score |-> 350, adherence_score |-> 500, adherence_level |-> Absent]

\* lines 124-155; adherence_score is NoDict or <<dict>>
calculate_adherence_risk(adherence_score) ==
    IF adherence_score = NoDict \/ adherence_score[1].overall_score = Missing
    THEN DefaultAdherenceRisk
    ELSE LET overall_score == adherence_score[1].overall_score
             adherence_level ==
                 IF adherence_score[1].adherence_level = Absent THEN "Fair"
                 ELSE adherence_score[1].adherence_level
             \* hundredths of a point
             inverse == (1000 - overall_score) * 2
             adherence_risk ==
                 IF adherence_level = "Critical" THEN inverse + 10 * 100
                 ELSE IF adherence_level = "Poor" THEN inverse + 5 * 100
                 ELSE inverse
         IN  [risk_score |-> Round1(Min(100 * 100, adherence_risk), 10),
              adherence_score |-> overall_score,
              adherence_level |-> adherence_level]

\* faulty variant: a patient without a prediction counts as a certain no-show
DefaultNoShowRisk_certain == [risk_score |-> 200, no_show_probability |-> 1000]

\* lines 161-166
DefaultNoShowRisk == [risk_score |-> 200, no_show_probability |-> 200]

\* lines 157-180; no_show_prediction is NoDict or <<dict>>
calculate_no_show_risk(no_show_prediction) ==
    IF no_show_prediction = NoDict \/ no_show_prediction[1].no_show_probability = Missing
    THEN DefaultNoShowRisk
    ELSE LET no_show_prob == no_show_prediction[1].no_show_probability
         IN  \* no_show_prob * 100 * 0.10 is no_show_prob hundredths of a point
             [risk_score |-> Round1(no_show_prob, 10),
              no_show_probability |-> no_show_prob]

\* lines 188-195: both calls are in one try; a raise leaves what was not
\* assigned yet at None
VitalsStability(vitals_service) ==
    IF ~vitals_service.present THEN NoDict
    ELSE IF vitals_service.generate_stability_indicators.raises THEN NoDict
    ELSE <<vitals_service.generate_stability_indicators.value>>

VitalsTrends(vitals_service) ==
    IF ~vitals_service.present THEN NoDict
    ELSE IF vitals_service.generate_stability_indicators.raises THEN NoDict
    ELSE IF vitals_service.detect_abnormal_trends.raises THEN NoDict
    ELSE <<vitals_service.detect_abnormal_trends.value>>

\* lines 197-202
AdherenceScore(adherence_service) ==
    IF ~adherence_service.present THEN NoDict
    ELSE IF adherence_service.compute_adherence_score.raises THEN NoDict
    ELSE <<adherence_service.compute_adherence_score.value>>

\* lines 204-222
NoShowPrediction(no_show_service) ==
    IF ~no_show_service.present THEN NoDict
    ELSE IF no_show_service.predict_no_show.raises THEN NoDict
    ELSE <<no_show_service.predict_no_show.value>>

\* faulty variant: the boundaries belong to the lower category
RiskCategory_exclusive(overall_risk) ==
    IF overall_risk > risk_thresholds_high * 10 THEN "High"
    ELSE IF overall_risk > risk_thresholds_medium * 10 THEN "Medium"
    ELSE "Low"

\* lines 244-256
RiskCategory(overall_risk) ==
    IF overall_risk >= risk_thresholds_high * 10 THEN "High"
    ELSE IF overall_risk >= risk_thresholds_medium * 10 THEN "Medium"
    ELSE "Low"

\* faulty variant: the total is capped at 100
OverallRisk_capped(vitals_risk, chronic_risk, adherence_risk, no_show_risk) ==
    Min(1000, vitals_risk.risk_score + chronic_risk.risk_score
              + adherence_risk.risk_score + no_show_risk.risk_score)

\* lines 236-241
OverallRisk(vitals_risk, chronic_risk, adherence_risk, no_show_risk) ==
    vitals_risk.risk_score + chronic_risk.risk_score
    + adherence_risk.risk_score + no_show_risk.risk_score

\* list.sort(key=contribution, reverse=True): stable, largest first
RECURSIVE SortByContributionDesc(_)
SortByContributionDesc(drivers) ==
    IF drivers = <<>> THEN <<>>
    ELSE LET front == SortByContributionDesc(SubSeq(drivers, 1, Len(drivers) - 1))
             d == drivers[Len(drivers)]
             k == Cardinality({i \in DOMAIN front : front[i].contribution >= d.contribution})
         IN  SubSeq(front, 1, k) \o <<d>> \o SubSeq(front, k + 1, Len(front))

\* one driver, or none
DriverIf(condition, category, risk) ==
    IF condition THEN <<[category |-> category, contribution |-> risk.risk_score]>> ELSE <<>>

\* lines 306-351 (the description and factors texts are left out)
_generate_risk_drivers(vitals_risk, chronic_risk, adherence_risk, no_show_risk) ==
    SortByContributionDesc(
        DriverIf(vitals_risk.risk_score > 200, "Vitals Stability", vitals_risk)
        \o DriverIf(chronic_risk.risk_score > 150, "Chronic Conditions", chronic_risk)
        \o DriverIf(adherence_risk.risk_score > 150, "Adherence", adherence_risk)
        \o DriverIf(no_show_risk.risk_score > 100, "Appointment Attendance", no_show_risk))

\* lines 360-371
CategoryRecommendations(risk_category) ==
    IF risk_category = "High"
    THEN <<"Immediate clinical review required",
           "Consider hospital admission for close monitoring",
           "Implement intensive case management">>
    ELSE IF risk_category = "Medium"
    THEN <<"Schedule follow-up within 48 hours",
           "Increase monitoring frequency",
           "Consider home health visit">>
    ELSE <<"Continue routine monitoring", "Maintain current care plan">>

\* lines 374-388
VitalsRecommendations ==
    <<"Address vital signs abnormalities immediately", "Review and adjust medications">>
ChronicRecommendations ==
    <<"Optimize chronic disease management", "Consider specialist consultation">>
AdherenceRecommendations ==
    <<"Implement adherence improvement strategies", "Address barriers to care">>
NoShowRecommendations ==
    <<"Implement appointment reminder system", "Consider telehealth options">>

\* recommendations[:8], line 389
RecommendationLimit == 8

\* lines 353-389
_generate_risk_recommendations(risk_category, vitals_risk, chronic_risk, adherence_risk, no_show_risk) ==
    FirstN(CategoryRecommendations(risk_category)
           \o (IF vitals_risk.risk_score > 300 THEN VitalsRecommendations ELSE <<>>)
           \o (IF chronic_risk.risk_score > 250 THEN ChronicRecommendations ELSE <<>>)
           \o (IF adherence_risk.risk_score > 200 THEN AdherenceRecommendations ELSE <<>>)
           \o (IF no_show_risk.risk_score > 150 THEN NoShowRecommendations ELSE <<>>),
           RecommendationLimit)

\* lines 182-284 (colour, urgency level and the timestamps are left out)
calculate_overall_risk_score(patient_id, patient_data, vitals_service, adherence_service, no_show_service) ==
    LET vitals_stability == VitalsStability(vitals_service)
        vitals_risk ==
            calculate_vitals_risk(
                IF vitals_stability # NoDict THEN vitals_stability[1].stability_score
                ELSE Missing,
                VitalsTrends(vitals_service))
        chronic_risk == calculate_chronic_conditions_risk(patient_data)
        adherence_risk == calculate_adherence_risk(AdherenceScore(adherence_service))
        no_show_risk == calculate_no_show_risk(NoShowPrediction(no_show_service))
        overall_risk == OverallRisk(vitals_risk, chronic_risk, adherence_risk, no_show_risk)
    IN  [patient_id |-> patient_id,
         overall_risk_score |-> overall_risk,
         risk_category |-> RiskCategory(overall_risk),
         component_risks |->
            [vitals_stability |-> vitals_risk,
             chronic_conditions |-> chronic_risk,
             adherence |-> adherence_risk,
             no_show_prediction |-> no_show_risk],
         risk_drivers |->
            _generate_risk_drivers(vitals_risk, chronic_risk, adherence_risk, no_show_risk),
         recommendations |->
            _generate_risk_recommendations(RiskCategory(overall_risk), vitals_risk,
                                           chronic_risk, adherence_risk, no_show_risk)]

-----------------------------------------------------------------------------
(* calculate_overall_risk_score applied to the inputs of a request *)

MaxConditions == 22

VitalsService(stability, trends) ==
    [present |-> TRUE, generate_stability_indicators |-> stability,
     detect_abnormal_trends |-> trends]

StabilityScores == {0, 20, 65, 100}
\* <<concerning trends, abnormal vitals>> of the six vitals
TrendCounts == { <<0, 0>>, <<2, 1>>, <<6, 6>> }
\* the dict the vitals service returns when it has no data
ErrorDict == [stability_score |-> Missing, trends |-> Missing, abnormalities |-> Missing]

VitalsServices ==
    {NoService, VitalsService(Raises, Raises), VitalsService(Returns(ErrorDict), Returns(ErrorDict))}
    \cup { VitalsService(Returns([stability_score |-> s]), Raises) : s \in {20} }
    \cup { VitalsService(Returns([stability_score |-> s]),
                         Returns([trends |-> c[1], abnormalities |-> c[2]])) :
             s \in StabilityScores, c \in TrendCounts }

AdherenceService(outcome) == [present |-> TRUE, compute_adherence_score |-> outcome]

AdherenceServices ==
    {NoService, AdherenceService(Raises),
     AdherenceService(Returns([overall_score |-> Missing, adherence_level |-> Absent]))}
    \cup { AdherenceService(Returns([overall_score |-> a[1], adherence_level |-> a[2]])) :
             a \in { <<0, "Critical">>, <<250, "Critical">>, <<435, "Poor">>,
                     <<1000, "Excellent">> } }

NoShowService(outcome) == [present |-> TRUE, predict_no_show |-> outcome]

NoShowServices ==
    {NoService, NoShowService(Raises)}
    \cup { NoShowService(Returns([no_show_probability |-> p])) : p \in {0, 123, 700, 1000} }

\* n dict keys that lower-case to one condition name, each with the same severity
SameCondition(condition, n, severity) ==
    [k \in 1..n |-> [condition |-> condition, spelling |-> k, severity |-> severity]]

ConditionCounts == {1, MaxConditions}

ChronicConditions ==
    { <<>>,
      <<[condition |-> "diabetes", spelling |-> 1, severity |-> [bool |-> TRUE]],
        [condition |-> "hypertension", spelling |-> 1, severity |-> [number |-> 4]],
        [condition |-> "obesity", spelling |-> 1, severity |-> [bool |-> FALSE]],
        [condition |-> "arthritis", spelling |-> 1, severity |-> [number |-> 10]]>> }
    \cup { SameCondition("kidney_disease", n, [bool |-> TRUE]) : n \in ConditionCounts }

Ages == {Missing, 10, 50, 65, 85}

PatientData ==
    { [age |-> age, chronic_conditions |-> c] : age \in Ages, c \in ChronicConditions }

\* a scoring request that has arrived: its arguments, nothing returned yet
InitScoring ==
    /\ escalation_events = <<>>
    /\ now = 0
    /\ next_id = 1
    /\ result = [op |-> "none", escalation_id |-> UnknownId, outcome |-> None]
    /\ pc = [t \in Threads |-> "idle"]
    /\ frame = [t \in Threads |-> NoFrame]
    /\ observed = NoObservation
    /\ routing_case = <<>>
    /\ dashboard_data = <<>>
    /\ \E patient_data \in PatientData, vitals_service \in VitalsServices,
          adherence_service \in AdherenceServices, no_show_service \in NoShowServices :
           assessment =
               [patient_data |-> patient_data,
                vitals_service |-> vitals_service,
                adherence_service |-> adherence_service,
                no_show_service |-> no_show_service,
                returned |-> <<>>]
    /\ trigger_check = <<>>
    /\ report = <<>>

\* faulty variant: scoring files an event of its own for a High assessment
Score_escalates ==
    /\ assessment.returned = <<>>
    /\ LET returned == calculate_overall_risk_score(
                           "P0007", assessment.patient_data, assessment.vitals_service,
                           assessment.adherence_service, assessment.no_show_service)
       IN  /\ assessment' = [assessment EXCEPT !.returned = <<returned>>]
           /\ escalation_events' =
                  IF returned.risk_category = "High"
                  THEN CreateEach(escalation_events, next_id, "P0007", <<HighRiskTrigger>>, now)
                  ELSE escalation_events
    /\ UNCHANGED <<now, next_id, result, pc, frame, observed, routing_case,
                   dashboard_data, trigger_check, report>>

\* the call returns; returned holds the assessment
Score ==
    /\ assessment.returned = <<>>
    /\ assessment' =
           [assessment EXCEPT !.returned =
               <<calculate_overall_risk_score(
                     "P0007", assessment.patient_data, assessment.vitals_service,
                     assessment.adherence_service, assessment.no_show_service)>>]
    /\ UNCHANGED <<escalation_events, now, next_id, result, pc, frame, observed,
                   routing_case, dashboard_data, trigger_check, report>>

SpecScoring == InitScoring /\ [][Score]_vars

-----------------------------------------------------------------------------
(* A risk assessment request followed by a check-triggers request that     *)
(* carries the assessment returned, against a store that holds events      *)

\* the stores the requests meet: none, or the events of one earlier request
AssessStores ==
    {<<>>}
    \cup { StoreAfterHistory(h, 1) :
             h \in {g \in Histories : Len(g) = 1 /\ g[1].at = 0 /\ g[1].followup = "resolve_last"} }

InitAssess ==
    /\ escalation_events \in AssessStores
    /\ now = 0
    /\ next_id = Len(AllEvents(escalation_events)) + 1
    /\ result = [op |-> "none", escalation_id |-> UnknownId, outcome |-> None]
    /\ pc = [t \in Threads |-> "idle"]
    /\ frame = [t \in Threads |-> NoFrame]
    /\ observed = NoObservation
    /\ routing_case = <<>>
    /\ dashboard_data = <<>>
    /\ \E patient_data \in PatientData, vitals_service \in VitalsServices,
          adherence_service \in AdherenceServices, no_show_service \in NoShowServices :
           assessment =
               [patient_data |-> patient_data,
                vitals_service |-> vitals_service,
                adherence_service |-> adherence_service,
                no_show_service |-> no_show_service,
                returned |-> <<>>]
    /\ trigger_check = <<>>
    /\ report = <<>>

\* the check-triggers request, routes/escalation.py lines 42-71: the triggers of
\* the assessment are found, then one event is created for each of them
CheckTriggersRoute ==
    /\ assessment.returned # <<>>
    /\ trigger_check = <<>>
    /\ LET current == assessment.returned[1]
           triggers == check_escalation_triggers(current, <<>>)
       IN  /\ trigger_check' =
                  [current_risk_assessment |-> current,
                   previous_risk_assessment |-> <<>>,
                   escalations |-> triggers]
           /\ escalation_events' =
                  CreateEach(escalation_events, next_id, current.patient_id, triggers, now)
           /\ next_id' = next_id + Len(triggers)
    /\ UNCHANGED <<now, result, pc, frame, observed, routing_case, dashboard_data,
                   assessment, report>>

NextAssess == Score \/ CheckTriggersRoute

SpecAssess == InitAssess /\ [][NextAssess]_vars

-----------------------------------------------------------------------------
(* create_escalation_event on the server's thread pool: each thread serves *)
(* one create call, a thread switch can fall between any two statements of *)
(* it, and reads arrive in between                                         *)

\* lines 205-240: the id is drawn and the event dict is built
CreCall(t, patient_id, escalation_trigger) ==
    /\ pc[t] = "idle"
    /\ frame' = [frame EXCEPT ![t] =
                    [op |-> "create", escalation_id |-> next_id, patient_id |-> patient_id,
                     escalation_event |-> NewEvent(next_id, patient_id, escalation_trigger, now),
                     outcome |-> None]]
    /\ next_id' = next_id + 1
    /\ Goto(t, "cre_243")
    /\ UNCHANGED <<escalation_events, now, result, observed, routing_case, dashboard_data, assessment, trigger_check, report>>

\* line 243: if patient_id not in self.escalation_events
Cre243(t) ==
    /\ pc[t] = "cre_243"
    /\ IF HasPatient(escalation_events, frame[t].patient_id)
       THEN Goto(t, "cre_245")
       ELSE Goto(t, "cre_244")
    /\ UNCHANGED <<escalation_events, now, next_id, result, frame, observed, routing_case, dashboard_data, assessment, trigger_check, report>>

\* self.escalation_events[patient_id] = []: a new key, or a new list for the key
SetEmptyList(store, patient_id) ==
    IF HasPatient(store, patient_id)
    THEN [i \in DOMAIN store |->
            IF store[i].patient_id = patient_id
            THEN [store[i] EXCEPT !.events = <<>>]
            ELSE store[i]]
    ELSE Append(store, [patient_id |-> patient_id, events |-> <<>>])

\* line 244
Cre244(t) ==
    /\ pc[t] = "cre_244"
    /\ escalation_events' = SetEmptyList(escalation_events, frame[t].patient_id)
    /\ Goto(t, "cre_245")
    /\ UNCHANGED <<now, next_id, result, frame, observed, routing_case, dashboard_data, assessment, trigger_check, report>>

\* line 245
Cre245(t) ==
    /\ pc[t] = "cre_245"
    /\ escalation_events' =
           AppendEvent(escalation_events, frame[t].patient_id, frame[t].escalation_event)
    /\ Goto(t, "cre_290")
    /\ UNCHANGED <<now, next_id, result, frame, observed, routing_case, dashboard_data, assessment, trigger_check, report>>

\* line 248, which ends in line 290: routing_info is written into the event dict,
\* wherever that dict is held
Cre290(t) ==
    /\ pc[t] = "cre_290"
    /\ escalation_events' =
           StoreEvent(escalation_events, SetRoutingInfo(frame[t].escalation_event))
    /\ frame' = [frame EXCEPT ![t].escalation_event = SetRoutingInfo(@)]
    /\ Goto(t, "cre_250")
    /\ UNCHANGED <<now, next_id, result, observed, routing_case, dashboard_data, assessment, trigger_check, report>>

\* line 250: the event is returned
Cre250(t) ==
    /\ pc[t] = "cre_250"
    /\ frame' = [frame EXCEPT ![t].outcome = PENDING]
    /\ Goto(t, "done")
    /\ UNCHANGED <<escalation_events, now, next_id, result, observed, routing_case, dashboard_data, assessment, trigger_check, report>>

ThreadCreCall == \E t \in Threads, rq \in CreateRequests : CreCall(t, rq[1], rq[2])
ThreadCre243 == \E t \in Threads : Cre243(t)
ThreadCre244 == \E t \in Threads : Cre244(t)
ThreadCre245 == \E t \in Threads : Cre245(t)
ThreadCre290 == \E t \in Threads : Cre290(t)
ThreadCre250 == \E t \in Threads : Cre250(t)

\* get by id, routes/escalation.py lines 179-194, for an id that is in the store
ReadStored == \E id \in EventIds(escalation_events) : ReadEvent(id)

\* the stores the calls meet: empty, or one earlier event of P0007
CreateStores == { <<>>, CreateEach(<<>>, 1, "P0007", <<HighRiskTrigger>>, 0) }

InitCreates ==
    /\ escalation_events \in CreateStores
    /\ now = 0
    /\ next_id = Len(AllEvents(escalation_events)) + 1
    /\ result = [op |-> "none", escalation_id |-> UnknownId, outcome |-> None]
    /\ pc = [t \in Threads |-> "idle"]
    /\ frame = [t \in Threads |-> NoFrame]
    /\ observed = NoObservation
    /\ routing_case = <<>>
    /\ dashboard_data = <<>>
    /\ assessment = <<>>
    /\ trigger_check = <<>>
    /\ report = <<>>

NextCreates ==
    \/ ThreadCreCall \/ ThreadCre243 \/ ThreadCre244 \/ ThreadCre245 \/ ThreadCre290
    \/ ThreadCre250
    \/ ReadStored \/ GetActiveEscalations \/ GetDashboard

SpecCreates == InitCreates /\ [][NextCreates]_vars

-----------------------------------------------------------------------------
(* Properties *)

InvalidTransition == "invalid transition"

Range(seq) == {seq[i] : i \in DOMAIN seq}

Stored(escalation_id) == escalation_id \in EventIds(escalation_events)

\* C1: acknowledge called on an event whose status is RESOLVED fails with
\* InvalidTransition, and the event's status is RESOLVED after the call.
C1_AckOnResolvedRejected ==
    [][\A id \in IdInputs, rq \in AckRequests :
        (/\ Stored(id)
         /\ EventOf(escalation_events, id).status = RESOLVED
         /\ acknowledge_escalation(id, rq[1], rq[2]))
        => (/\ result'.outcome = InvalidTransition
            /\ EventOf(escalation_events', id).status = RESOLVED)]_vars

\* C2: resolve called on an event that is already RESOLVED is rejected with
\* InvalidTransition, and the resolved timestamp, resolver, resolution notes and
\* follow-up flag and date of the first resolve are the same after the call.
C2_SecondResolveRejected ==
    [][\A id \in IdInputs, rq \in ResolveRequests :
        (/\ Stored(id)
         /\ EventOf(escalation_events, id).status = RESOLVED
         /\ resolve_escalation(id, rq[1], rq[2], rq[3]))
        => LET e == EventOf(escalation_events, id)
               e2 == EventOf(escalation_events', id)
           IN  /\ result'.outcome = InvalidTransition
               /\ e2.resolved_at = e.resolved_at
               /\ e2.resolved_by = e.resolved_by
               /\ e2.resolution_notes = e.resolution_notes
               /\ e2.follow_up_required = e.follow_up_required
               /\ e2.follow_up_date = e.follow_up_date]_vars

\* C3: the status of an event only moves forward: an ACKNOWLEDGED event is not
\* PENDING after any step, and a RESOLVED event stays RESOLVED.
C3_StatusMonotonic ==
    [][\A id \in IdInputs :
        Stored(id) =>
            LET before == EventOf(escalation_events, id).status
                after == EventOf(escalation_events', id).status
            IN  /\ (before = ACKNOWLEDGED => after # PENDING)
                /\ (before = RESOLVED => after = RESOLVED)]_vars

\* the event as create left it, before any transition wrote to it
Pristine(e) ==
    [e EXCEPT !.status = PENDING,
              !.acknowledged_at = NoneTime, !.acknowledged_by = Absent,
              !.acknowledgment_notes = Absent,
              !.resolved_at = NoneTime, !.resolved_by = Absent,
              !.resolution_notes = None,
              !.follow_up_required = TRUE,
              !.follow_up_date = e.created_at + CreateFollowUpHours]

\* the whole transition of thread t applied to e in one piece, with the clock
\* readings the thread took
WholeCall(t, e) ==
    IF frame[t].op = "acknowledge"
    THEN AckWrites(e, frame[t].wrote_at, frame[t].by, frame[t].notes)
    ELSE LET r == ResWrites(e, frame[t].wrote_at, frame[t].by, frame[t].notes, FALSE)
         IN  [r EXCEPT !.follow_up_required = frame[t].follow_up_required,
                       !.follow_up_date = IF frame[t].follow_up_required
                                          THEN frame[t].wrote_date ELSE @]

Returned(t) == pc[t] = "done" /\ frame[t].outcome \in {ACKNOWLEDGED, RESOLVED}

\* C4: two transition calls that run concurrently on one escalation id leave the
\* event with the fields that running the two calls one after the other, in one
\* of the two orders, gives (at most one of them is in its read-modify-write at
\* a time).
C4_ConcurrentTransitionsSerial ==
    \A t1, t2 \in Threads :
        (/\ t1 # t2
         /\ Returned(t1) /\ Returned(t2)
         /\ frame[t1].escalation_id = frame[t2].escalation_id)
        => LET e == EventOf(escalation_events, frame[t1].escalation_id)
           IN  \/ e = WholeCall(t2, WholeCall(t1, Pristine(e)))
               \/ e = WholeCall(t1, WholeCall(t2, Pristine(e)))

\* C5: a read that runs concurrently with acknowledge or resolve never sees a
\* half-updated event: not ACKNOWLEDGED without acknowledged timestamp and
\* acknowledger, not RESOLVED without resolved timestamp, resolver and notes.
C5_ReadsSeeWholeEvents ==
    \A i \in DOMAIN observed :
        LET e == observed[i]
        IN  /\ e.status = ACKNOWLEDGED
                => (e.acknowledged_at # NoneTime /\ e.acknowledged_by # Absent)
            /\ e.status = RESOLVED
                => (/\ e.resolved_at # NoneTime
                    /\ e.resolved_by # Absent
                    /\ e.resolution_notes # None)

\* C6: acknowledge or resolve with an escalation id that is not in the store
\* returns the not-found error and leaves every stored event as it was.
C6_UnknownIdNotFound ==
    [][LET id == result'.escalation_id
       IN  (/\ ~Stored(id)
            /\ \/ /\ result'.op = "acknowledge"
                  /\ \E rq \in AckRequests : acknowledge_escalation(id, rq[1], rq[2])
               \/ /\ result'.op = "resolve"
                  /\ \E rq \in ResolveRequests :
                         resolve_escalation(id, rq[1], rq[2], rq[3]))
           => (result'.outcome = NotFound
               /\ escalation_events' = escalation_events)]_vars

\* an unknown id was acknowledged or resolved while the store held an event
C6_Witness ==
    /\ escalation_events # <<>>
    /\ result.op \in {"acknowledge", "resolve"}
    /\ ~Stored(result.escalation_id)
    /\ result.outcome = NotFound

\* C7: acknowledge takes effect only from PENDING or IN_PROGRESS, recording
\* acknowledger, timestamp and notes; from any other status it leaves status,
\* acknowledger, acknowledged timestamp and notes as they were.
C7_AckOnlyFromPendingOrInProgress ==
    [][\A id \in IdInputs, rq \in AckRequests :
        (Stored(id) /\ acknowledge_escalation(id, rq[1], rq[2]))
        => LET e == EventOf(escalation_events, id)
               e2 == EventOf(escalation_events', id)
           IN  IF e.status \in {PENDING, IN_PROGRESS}
               THEN /\ e2.status = ACKNOWLEDGED
                    /\ e2.acknowledged_by = rq[1]
                    /\ e2.acknowledged_at = now
                    /\ e2.acknowledgment_notes = rq[2]
               ELSE /\ e2.status = e.status
                    /\ e2.acknowledged_by = e.acknowledged_by
                    /\ e2.acknowledged_at = e.acknowledged_at
                    /\ e2.acknowledgment_notes = e.acknowledgment_notes]_vars

\* C8: resolve from a non-terminal status yields RESOLVED with resolver,
\* timestamp and notes recorded, and the follow-up date is the resolve time plus
\* 7 days when follow-up is required and none when it is not.
C8_ResolveRecordsFollowUp ==
    [][\A id \in IdInputs, rq \in ResolveRequests :
        (/\ Stored(id)
         /\ EventOf(escalation_events, id).status \notin {RESOLVED, CANCELLED}
         /\ resolve_escalation(id, rq[1], rq[2], rq[3]))
        => LET e2 == EventOf(escalation_events', id)
           IN  /\ e2.status = RESOLVED
               /\ e2.resolved_by = rq[1]
               /\ e2.resolved_at = now
               /\ e2.resolution_notes = rq[2]
               /\ e2.follow_up_date =
                      IF rq[3] THEN now + ResolveFollowUpHours ELSE NoneTime]_vars

C10_RoutingMatrix ==
    \A i \in DOMAIN routing_case :
        LET c == routing_case[i]
            r == c.routing_info
        IN  /\ c.escalation_level = EMERGENCY =>
                   /\ Range(r.routed_to) =
                          {"emergency_department", "on_call_physician", "charge_nurse"}
                   /\ r.estimated_response_time = "5 minutes"
            /\ (c.escalation_level = PHYSICIAN /\ c.urgency = "immediate") =>
                   /\ Range(r.delivery_methods) =
                          {"phone_call", "dashboard_notification", "sms_alert"}
                   /\ r.estimated_response_time = "15 minutes"
            /\ (c.escalation_level = PHYSICIAN /\ c.urgency # "immediate") =>
                   /\ Range(r.delivery_methods) = {"dashboard_notification", "email"}
                   /\ r.estimated_response_time = "1 hour"
            /\ c.escalation_level = SPECIALIST =>
                   /\ Range(r.delivery_methods) = {"dashboard_notification", "email"}
                   /\ r.estimated_response_time = "4 hours"
            /\ c.escalation_level = NURSE =>
                   /\ Range(r.delivery_methods) = {"dashboard_notification"}
                   /\ r.estimated_response_time = "2 hours"
            /\ \A j \in DOMAIN routing_case :
                   (/\ routing_case[j].escalation_level = c.escalation_level
                    /\ routing_case[j].urgency = c.urgency)
                   => /\ routing_case[j].routing_info.routed_to = r.routed_to
                      /\ routing_case[j].routing_info.delivery_methods = r.delivery_methods
                      /\ routing_case[j].routing_info.estimated_response_time =
                             r.estimated_response_time

\* two different events of level Physician, one immediate and one urgent, routed
C10_Witness ==
    /\ Len(routing_case) = 2
    /\ routing_case[1].escalation_level = PHYSICIAN
    /\ routing_case[1].urgency = "immediate"
    /\ routing_case[2].escalation_level = PHYSICIAN
    /\ routing_case[2].urgency = "urgent"
    /\ routing_case[1].escalation_id # routing_case[2].escalation_id

\* C11: the routing info, title and message of an event are fixed at creation:
\* whatever acknowledge, resolve and read calls and however much time followed,
\* the event found by its id carries the routing info, title and message that
\* create_escalation_event returned for it.
C11_RoutingTitleMessageFixed ==
    \A id \in 1..(next_id - 1) :
        Stored(id) =>
            LET e == EventOf(escalation_events, id)
            IN  \E rq \in CreateRequests :
                    /\ rq[1] = e.patient_id
                    /\ LET created == SetRoutingInfo(NewEvent(id, rq[1], rq[2], e.created_at))
                       IN  /\ e.routing_info = created.routing_info
                           /\ e.title = created.title
                           /\ e.message = created.message

\* an immediate physician event, acknowledged and then resolved, read after time
\* has passed since its creation
C11_Witness ==
    \E id \in 1..(next_id - 1) :
        /\ Stored(id)
        /\ EventOf(escalation_events, id).urgency = "immediate"
        /\ EventOf(escalation_events, id).status = RESOLVED
        /\ EventOf(escalation_events, id).acknowledged_by # Absent
        /\ now > EventOf(escalation_events, id).created_at

\* the stored events that are PENDING, ACKNOWLEDGED or IN_PROGRESS
StoredActive ==
    {i \in DOMAIN AllEvents(escalation_events) :
        AllEvents(escalation_events)[i].status \in {PENDING, ACKNOWLEDGED, IN_PROGRESS}}

UrgencyRank(e) ==
    CASE e.urgency = "immediate" -> 1
      [] e.urgency = "urgent" -> 2
      [] e.urgency = "routine" -> 3

\* C12: get_active_escalations returns exactly the stored events whose status is
\* PENDING, ACKNOWLEDGED or IN_PROGRESS, each once, ordered by urgency rank
\* (immediate, then urgent, then routine) and within one urgency by creation
\* time ascending.
C12_ActiveListFilteredAndOrdered ==
    result.op = "get_active_escalations" =>
        /\ Len(observed) = Cardinality(StoredActive)
        /\ \A i \in StoredActive :
               \E k \in DOMAIN observed : observed[k] = AllEvents(escalation_events)[i]
        /\ \A k \in DOMAIN observed :
               \E i \in StoredActive : observed[k] = AllEvents(escalation_events)[i]
        /\ \A k, l \in DOMAIN observed :
               k < l =>
                   \/ UrgencyRank(observed[k]) < UrgencyRank(observed[l])
                   \/ /\ UrgencyRank(observed[k]) = UrgencyRank(observed[l])
                      /\ observed[k].created_at <= observed[l].created_at

\* the active list was read from a store that holds a resolved event, two active
\* events of one urgency created in different hours, and an active event of
\* another urgency created before an immediate one
C12_Witness ==
    /\ result.op = "get_active_escalations"
    /\ \E e \in Range(AllEvents(escalation_events)) : e.status = RESOLVED
    /\ \E e \in Range(observed) : e.status = ACKNOWLEDGED
    /\ \E k, l \in DOMAIN observed :
           /\ observed[k].urgency = observed[l].urgency
           /\ observed[k].created_at < observed[l].created_at
    /\ \E k, l \in DOMAIN observed :
           /\ observed[k].urgency = "immediate"
           /\ observed[l].urgency # "immediate"
           /\ observed[l].created_at < observed[k].created_at

\* C13: the overdue count of the dashboard equals the number of active events
\* created more than 24 hours before the read; an active event aged exactly
\* 24 hours is not counted.
C13_OverdueCountOlderThan24h ==
    dashboard_data # <<>> =>
        dashboard_data.summary.overdue_count =
            Cardinality({i \in StoredActive :
                dashboard_data.summary.last_updated
                    - AllEvents(escalation_events)[i].created_at > 24})

\* how many triggers of one type the last trigger check returned
Fired(trigger_type) ==
    Cardinality({i \in DOMAIN trigger_check.escalations :
                    trigger_check.escalations[i].trigger_type = trigger_type})

\* the overall score of the checked assessment, in tenths (0 when it has none)
CheckedScore == Get(trigger_check.current_risk_assessment.overall_risk_score, 0)

\* C14: at most one of critical_risk_score and high_risk_score is emitted:
\* critical_risk_score exactly when the overall score is >= 85, high_risk_score
\* exactly when 70 <= overall score < 85.
C14_ScoreRulesExclusive ==
    trigger_check # <<>> =>
        /\ Fired("critical_risk_score") = (IF CheckedScore >= 850 THEN 1 ELSE 0)
        /\ Fired("high_risk_score") =
               (IF CheckedScore >= 700 /\ CheckedScore < 850 THEN 1 ELSE 0)
        /\ Fired("critical_risk_score") + Fired("high_risk_score") <= 1

\* an assessment with overall score 90 was checked and only the critical
\* trigger of the two was returned
C14_Witness ==
    /\ trigger_check # <<>>
    /\ CheckedScore = 900
    /\ Fired("critical_risk_score") = 1
    /\ Fired("high_risk_score") = 0

\* C15: rapid_risk_increase is emitted exactly when a previous assessment is
\* supplied and the current score minus the previous score (0 when the previous
\* assessment carries none) is >= 15, and never without a previous assessment.
C15_RapidIncreaseRule ==
    trigger_check # <<>> =>
        LET previous == trigger_check.previous_risk_assessment
        IN  Fired("rapid_risk_increase") =
                (IF /\ previous # <<>>
                    /\ CheckedScore - Get(previous[1].overall_risk_score, 0) >= 150
                 THEN 1 ELSE 0)

\* scores 50 then 65, an increase of exactly 15, fired the rule
C15_Witness ==
    /\ trigger_check # <<>>
    /\ trigger_check.previous_risk_assessment # <<>>
    /\ trigger_check.previous_risk_assessment[1].overall_risk_score = 500
    /\ CheckedScore = 650
    /\ Fired("rapid_risk_increase") = 1

\* the trigger types an input built to fire one score trigger and the rules of
\* `rules` alone gives
TypesFor(score_trigger, rules) ==
    LET current ==
            RiskAssessment(IF score_trigger = "critical_risk_score" THEN 900 ELSE 700,
                           IF "critical_vitals" \in rules THEN 501 ELSE 500,
                           IF "adherence_crisis" \in rules THEN 299 ELSE 300,
                           IF "high_no_show_risk" \in rules THEN 700 ELSE 699)
        previous ==
            IF "rapid_risk_increase" \in rules
            THEN <<RiskAssessment(500, Missing, Missing, Missing)>> ELSE <<>>
        escalations == check_escalation_triggers(current, previous)
    IN  {escalations[i].trigger_type : i \in DOMAIN escalations}

\* C16: trigger evaluation never short-circuits: each rule contributes its
\* trigger exactly when its own condition holds (vitals risk > 50, raw adherence
\* score < 30, no-show probability >= 0.7, besides the score and rapid-increase
\* rules), and every subset of rules 3-6 appears together with either score
\* trigger.
C16_RulesIndependent ==
    /\ trigger_check # <<>> =>
        LET component_risks == trigger_check.current_risk_assessment.component_risks
            previous == trigger_check.previous_risk_assessment
        IN  /\ Fired("critical_risk_score") + Fired("high_risk_score") =
                   (IF CheckedScore >= 700 THEN 1 ELSE 0)
            /\ Fired("rapid_risk_increase") =
                   (IF /\ previous # <<>>
                       /\ CheckedScore - Get(previous[1].overall_risk_score, 0) >= 150
                    THEN 1 ELSE 0)
            /\ Fired("critical_vitals") =
                   (IF Get(component_risks.vitals_stability.risk_score, 0) > 500
                    THEN 1 ELSE 0)
            /\ Fired("adherence_crisis") =
                   (IF Get(component_risks.adherence.adherence_score, 1000) < 300
                    THEN 1 ELSE 0)
            /\ Fired("high_no_show_risk") =
                   (IF Get(component_risks.no_show_prediction.no_show_probability, 0) >= 700
                    THEN 1 ELSE 0)
            /\ Len(trigger_check.escalations) =
                   Fired("critical_risk_score") + Fired("high_risk_score")
                   + Fired("rapid_risk_increase") + Fired("critical_vitals")
                   + Fired("adherence_crisis") + Fired("high_no_show_risk")
    /\ \A score_trigger \in {"critical_risk_score", "high_risk_score"} :
           \A rules \in SUBSET {"rapid_risk_increase", "critical_vitals",
                                "adherence_crisis", "high_no_show_risk"} :
               TypesFor(score_trigger, rules) = {score_trigger} \cup rules

\* one check returned the high-risk trigger together with all of rules 3-6
C16_Witness ==
    /\ trigger_check # <<>>
    /\ Fired("high_risk_score") = 1
    /\ Fired("rapid_risk_increase") = 1
    /\ Fired("critical_vitals") = 1
    /\ Fired("adherence_crisis") = 1
    /\ Fired("high_no_show_risk") = 1
    /\ Len(trigger_check.escalations) = 5

\* the assessment the scoring call returned, and the inputs it was given
Scored == assessment # <<>> /\ assessment.returned # <<>>
ReturnedAssessment == assessment.returned[1]
StabilityIn ==
    LET vitals_stability == VitalsStability(assessment.vitals_service)
    IN  IF vitals_stability = NoDict THEN 50 ELSE Get(vitals_stability[1].stability_score, 50)
TrendsIn ==
    LET vitals_trends == VitalsTrends(assessment.vitals_service)
    IN  IF vitals_trends = NoDict THEN 0 ELSE Get(vitals_trends[1].trends, 0)
AbnormalIn ==
    LET vitals_trends == VitalsTrends(assessment.vitals_service)
    IN  IF vitals_trends = NoDict THEN 0 ELSE Get(vitals_trends[1].abnormalities, 0)
\* min(100, (100 - stability) * 0.35 + 5 * trends + 8 * abnormal), in hundredths
VitalsFormula == Min(10000, (100 - StabilityIn) * 35 + 500 * TrendsIn + 800 * AbnormalIn)
ComponentSum ==
    ReturnedAssessment.component_risks.vitals_stability.risk_score
    + ReturnedAssessment.component_risks.chronic_conditions.risk_score
    + ReturnedAssessment.component_risks.adherence.risk_score
    + ReturnedAssessment.component_risks.no_show_prediction.risk_score
VitalsUnavailable ==
    \/ ~assessment.vitals_service.present
    \/ assessment.vitals_service.generate_stability_indicators.raises
AdherenceUnavailable ==
    \/ ~assessment.adherence_service.present
    \/ assessment.adherence_service.compute_adherence_score.raises
NoShowUnavailable ==
    \/ ~assessment.no_show_service.present
    \/ assessment.no_show_service.predict_no_show.raises

C18_ComponentsWithin0To100 ==
    Scored =>
        /\ ReturnedAssessment.component_risks.vitals_stability.risk_score \in 0..1000
        /\ ReturnedAssessment.component_risks.chronic_conditions.risk_score \in 0..1000
        /\ ReturnedAssessment.component_risks.adherence.risk_score \in 0..1000
        /\ ReturnedAssessment.component_risks.no_show_prediction.risk_score \in 0..1000

\* the inputs of the worked example: stability 20, two concerning trends, one
\* abnormal vital, age 50, no conditions, no adherence or no-show collaborator
ExampleInputs ==
    /\ ~VitalsUnavailable
    /\ StabilityIn = 20 /\ TrendsIn = 2 /\ AbnormalIn = 1
    /\ assessment.patient_data.age = 50
    /\ assessment.patient_data.chronic_conditions = <<>>
    /\ ~assessment.adherence_service.present
    /\ ~assessment.no_show_service.present

\* C19 as stated: the overall score is the plain sum of the four component scores,
\* with no cap, and the vitals component is exactly
\* min(100, (100 - stability) * 0.35 + 5 * trends + 8 * abnormal).
C19_SumAndExactVitalsFormula ==
    Scored =>
        /\ ReturnedAssessment.overall_risk_score = ComponentSum
        /\ ReturnedAssessment.component_risks.vitals_stability.risk_score * 10 = VitalsFormula

\* C19, amended: the overall score is the plain sum of the four component scores,
\* with no cap, and the vitals component is
\* min(100, (100 - stability) * 0.35 + 5 * trends + 8 * abnormal) rounded to one
\* decimal place; the worked example gives vitals 46, overall 101, High.
C19_SumAndRoundedVitalsFormula ==
    Scored =>
        /\ ReturnedAssessment.overall_risk_score = ComponentSum
        /\ ReturnedAssessment.component_risks.vitals_stability.risk_score = Round1(VitalsFormula, 10)
        /\ ExampleInputs =>
              /\ ReturnedAssessment.component_risks.vitals_stability.risk_score = 460
              /\ ReturnedAssessment.overall_risk_score = 1010
              /\ ReturnedAssessment.risk_category = "High"

C19_Witness ==
    /\ Scored
    /\ ExampleInputs
    /\ ReturnedAssessment.overall_risk_score = 1010

\* the same request with every collaborator present and answering
HealthyVitals ==
    VitalsService(Returns([stability_score |-> 20]), Returns([trends |-> 0, abnormalities |-> 0]))
HealthyAdherence ==
    AdherenceService(Returns([overall_score |-> 1000, adherence_level |-> "Excellent"]))
HealthyNoShow == NoShowService(Returns([no_show_probability |-> 0]))
ScoredWith(vitals_service, adherence_service, no_show_service) ==
    calculate_overall_risk_score("P0007", assessment.patient_data, vitals_service,
                                 adherence_service, no_show_service).component_risks

\* C20: with any subset of the vitals, adherence and no-show collaborators absent or
\* raising, scoring still returns an assessment; a missing input is replaced by its
\* default (stability 50, adherence risk 35.0, no-show risk 20.0 with probability
\* 0.2), and every other component is scored as if no collaborator had failed.
C20_DefaultsForMissingCollaborators ==
    Scored =>
        LET r == ReturnedAssessment.component_risks
        IN  /\ ReturnedAssessment.overall_risk_score = ComponentSum
            /\ VitalsUnavailable =>
                  /\ StabilityIn = 50
                  /\ r.vitals_stability.risk_score = 175
            /\ AdherenceUnavailable => r.adherence.risk_score = 350
            /\ NoShowUnavailable =>
                  /\ r.no_show_prediction.risk_score = 200
                  /\ r.no_show_prediction.no_show_probability = 200
            /\ r.vitals_stability =
                  ScoredWith(assessment.vitals_service, HealthyAdherence,
                             HealthyNoShow).vitals_stability
            /\ r.chronic_conditions =
                  ScoredWith(HealthyVitals, HealthyAdherence, HealthyNoShow).chronic_conditions
            /\ r.adherence =
                  ScoredWith(HealthyVitals, assessment.adherence_service,
                             HealthyNoShow).adherence
            /\ r.no_show_prediction =
                  ScoredWith(HealthyVitals, HealthyAdherence,
                             assessment.no_show_service).no_show_prediction

C20_Witness ==
    /\ Scored
    /\ assessment.vitals_service.present /\ VitalsUnavailable
    /\ ~assessment.adherence_service.present
    /\ assessment.no_show_service.present /\ NoShowUnavailable
    /\ ReturnedAssessment.component_risks.vitals_stability.risk_score = 175
    /\ ReturnedAssessment.component_risks.adherence.risk_score = 350
    /\ ReturnedAssessment.component_risks.no_show_prediction.risk_score = 200

\* the fields acknowledge owns, and the fields resolve owns
AckFields == {"status", "acknowledged_at", "acknowledged_by", "acknowledgment_notes"}
ResFields ==
    {"status", "resolved_at", "resolved_by", "resolution_notes", "follow_up_required",
     "follow_up_date"}
\* every stored event other than escalation_id is as it was, and that event differs
\* from what it was in fields of owned alone
OnlyWrote(escalation_id, owned) ==
    /\ Len(AllEvents(escalation_events')) = Len(AllEvents(escalation_events))
    /\ \A i \in DOMAIN AllEvents(escalation_events) :
           LET e == AllEvents(escalation_events)[i]
               e2 == AllEvents(escalation_events')[i]
           IN  IF e.escalation_id = escalation_id
               THEN \A f \in DOMAIN e : f \notin owned => e2[f] = e[f]
               ELSE e2 = e

\* C24: create always yields a PENDING event whose transition-owned fields are all
\* unset (no acknowledger, acknowledged timestamp or notes; no resolver, resolved
\* timestamp, resolution notes, follow-up flag or follow-up date); acknowledge
\* writes only the acknowledgment fields and resolve only the resolution and
\* follow-up fields, and neither changes another field or another event.
C24_CreatePendingAndFieldOwnership ==
    [][/\ (/\ result'.op = "create"
           /\ \E rq \in CreateRequests : create_escalation_event(rq[1], rq[2]))
          => LET e == EventOf(escalation_events', result'.escalation_id)
             IN  /\ e.status = PENDING
                 /\ e.acknowledged_by = Absent
                 /\ e.acknowledged_at = NoneTime
                 /\ e.acknowledgment_notes = Absent
                 /\ e.resolved_by = Absent
                 /\ e.resolved_at = NoneTime
                 /\ e.resolution_notes = None
                 /\ e.follow_up_required = FALSE
                 /\ e.follow_up_date = NoneTime
       /\ (/\ result'.op = "acknowledge"
           /\ \E id \in IdInputs, rq \in AckRequests :
                  acknowledge_escalation(id, rq[1], rq[2]))
          => OnlyWrote(result'.escalation_id, AckFields)
       /\ (/\ result'.op = "resolve"
           /\ \E id \in IdInputs, rq \in ResolveRequests :
                  resolve_escalation(id, rq[1], rq[2], rq[3]))
          => OnlyWrote(result'.escalation_id, ResFields)]_vars

\* C26: whatever create, acknowledge and resolve calls were made, an event has a
\* resolved timestamp if and only if its status is RESOLVED.
C26_ResolvedAtIffResolved ==
    \A i \in DOMAIN AllEvents(escalation_events) :
        LET e == AllEvents(escalation_events)[i]
        IN  e.resolved_at # NoneTime <=> e.status = RESOLVED

\* C29: no sequence of create, acknowledge and resolve calls puts an event in
\* status IN_PROGRESS or CANCELLED: every event is PENDING, ACKNOWLEDGED or RESOLVED.
C29_NeverInProgressOrCancelled ==
    \A i \in DOMAIN AllEvents(escalation_events) :
        AllEvents(escalation_events)[i].status \in {PENDING, ACKNOWLEDGED, RESOLVED}

\* an event that went through create, resolve and then acknowledge
C29_Witness ==
    \E i \in DOMAIN AllEvents(escalation_events) :
        LET e == AllEvents(escalation_events)[i]
        IN  /\ e.status = ACKNOWLEDGED
            /\ e.resolved_by # Absent
            /\ e.acknowledged_by # Absent

\* the positions of the items of one group in the returned recommendation list
PositionsOf(items) ==
    {i \in DOMAIN ReturnedAssessment.recommendations :
        ReturnedAssessment.recommendations[i] \in Range(items)}
Listed(items) == Range(items) \subseteq Range(ReturnedAssessment.recommendations)
Before(first, second) ==
    \A i \in PositionsOf(first), j \in PositionsOf(second) : i < j

\* C25: the recommendation list of an assessment has at most 8 items, lists the
\* category items first and then the vitals, chronic, adherence and no-show items
\* in that order, and holds a component's items exactly when that component's
\* score exceeds its floor (vitals > 20, chronic > 15, adherence > 15, no-show > 10).
C25_RecommendationsByFloor ==
    Scored =>
        LET r == ReturnedAssessment.component_risks
            category == CategoryRecommendations(ReturnedAssessment.risk_category)
        IN  /\ Len(ReturnedAssessment.recommendations) <= 8
            /\ Listed(category)
            /\ Before(category, VitalsRecommendations)
            /\ Before(VitalsRecommendations, ChronicRecommendations)
            /\ Before(ChronicRecommendations, AdherenceRecommendations)
            /\ Before(AdherenceRecommendations, NoShowRecommendations)
            /\ Listed(VitalsRecommendations) <=> r.vitals_stability.risk_score > 200
            /\ Listed(ChronicRecommendations) <=> r.chronic_conditions.risk_score > 150
            /\ Listed(AdherenceRecommendations) <=> r.adherence.risk_score > 150
            /\ Listed(NoShowRecommendations) <=> r.no_show_prediction.risk_score > 100

\* the events of the store before a step that are still in it, unchanged and in
\* the same place, after the step
OldEventsKept ==
    /\ Len(AllEvents(escalation_events')) >= Len(AllEvents(escalation_events))
    /\ \A i \in DOMAIN AllEvents(escalation_events) :
           \E j \in DOMAIN AllEvents(escalation_events') :
               AllEvents(escalation_events')[j] = AllEvents(escalation_events)[i]
\* the store holds one event for each id create has given out, and nothing else
OnlyCreatedEvents ==
    /\ Len(AllEvents(escalation_events)) = next_id - 1
    /\ EventIds(escalation_events) = 1..(next_id - 1)

\* C21: scoring and trigger evaluation are pure: a scoring call leaves the event
\* store as it was, trigger evaluation changes no event of the store, and the
\* store never holds an event that create_escalation_event did not add (the
\* events a check-triggers request adds are the ones create made for its triggers).
C21_ScoringAndTriggersPure ==
    [][/\ (assessment.returned = <<>> /\ assessment'.returned # <<>>)
          => (escalation_events' = escalation_events /\ next_id' = next_id)
       /\ (trigger_check = <<>> /\ trigger_check' # <<>>)
          => /\ OldEventsKept
             /\ Len(AllEvents(escalation_events')) =
                    Len(AllEvents(escalation_events)) + Len(trigger_check'.escalations)
             /\ next_id' = next_id + Len(trigger_check'.escalations)
             /\ \A k \in 1..Len(trigger_check'.escalations) :
                    LET e == EventOf(escalation_events', next_id + k - 1)
                    IN  e = SetRoutingInfo(
                                NewEvent(next_id + k - 1, "P0007",
                                         trigger_check'.escalations[k], now))
       /\ OnlyCreatedEvents' ]_vars

\* a scored assessment and its trigger check, with events of an earlier request in
\* the store
C21_Witness ==
    /\ assessment # <<>> /\ assessment.returned # <<>>
    /\ trigger_check # <<>>
    /\ Len(AllEvents(escalation_events)) > Len(trigger_check.escalations)
    /\ Len(trigger_check.escalations) > 0

\* every collaborator unavailable, age 50 and no chronic conditions
DefaultsAlone ==
    /\ VitalsUnavailable /\ AdherenceUnavailable /\ NoShowUnavailable
    /\ assessment.patient_data.age = 50
    /\ assessment.patient_data.chronic_conditions = <<>>

\* C30: with every collaborator unavailable, age 50 and no chronic conditions, the
\* assessment has overall score 72.5 (17.5 + 0 + 35.0 + 20.0) and category High,
\* and trigger evaluation on it emits exactly one trigger, high_risk_score (level
\* nurse, urgency urgent).
C30_DefaultsAloneEscalate ==
    (Scored /\ DefaultsAlone) =>
        /\ ReturnedAssessment.component_risks.vitals_stability.risk_score = 175
        /\ ReturnedAssessment.component_risks.chronic_conditions.risk_score = 0
        /\ ReturnedAssessment.component_risks.adherence.risk_score = 350
        /\ ReturnedAssessment.component_risks.no_show_prediction.risk_score = 200
        /\ ReturnedAssessment.overall_risk_score = 725
        /\ ReturnedAssessment.risk_category = "High"
        /\ trigger_check # <<>> =>
              /\ Len(trigger_check.escalations) = 1
              /\ trigger_check.escalations[1].trigger_type = "high_risk_score"
              /\ trigger_check.escalations[1].escalation_level = NURSE
              /\ trigger_check.escalations[1].urgency = "urgent"

C30_Witness ==
    /\ Scored /\ DefaultsAlone
    /\ trigger_check # <<>>
    /\ trigger_check.current_risk_assessment = ReturnedAssessment
    /\ Len(trigger_check.escalations) = 1

\* the events of the store that a report filter selects
InFilter(e, patient_id, start_date, end_date) ==
    /\ (patient_id = None \/ e.patient_id = patient_id)
    /\ (start_date = NoneTime \/ start_date <= e.created_at)
    /\ (end_date = NoneTime \/ e.created_at <= end_date)
Subset(patient_id, start_date, end_date) ==
    SelectSeq(AllEvents(escalation_events),
              LAMBDA e : InFilter(e, patient_id, start_date, end_date))

\* C22: for any filter (by subject, by date range, or none) the report's resolved
\* count is the number of filtered events with status RESOLVED, the resolution rate
\* is the resolved count divided by the filtered total (as a percentage; 0 when the
\* subset is empty), and the mean time-to-resolution is the mean of
\* resolved_at - created_at over exactly the resolved events of the subset (to
\* two decimals; 0 when there is none).
C22_ReportOverFilteredSubset ==
    [][\A patient_id \in {None} \cup PatientInputs, range \in ReportRanges :
        generate_escalation_report(patient_id, range[1], range[2])
        => LET subset == Subset(patient_id, range[1], range[2])
               resolved == FilterByStatus(subset, RESOLVED)
               summary == report'.summary
           IN  /\ summary.total_escalations = Len(subset)
               /\ summary.resolved_count = Len(resolved)
               /\ summary.resolution_rate[1] * Len(subset)
                      = Len(resolved) * 100 * summary.resolution_rate[2]
               /\ Len(subset) = 0 => summary.resolution_rate[1] = 0
               /\ summary.average_resolution_time_hours =
                      IF resolved = <<>> THEN 0
                      ELSE Round2(SumOfHours(resolved) * 100, Len(resolved))]_vars

\* C23: the per-subject event list is append-only and reads do not change it:
\* get_patient_escalations, get_active_escalations, the dashboard and the report
\* leave the store with the same events, field values and per-subject order.
C23_ReadsLeaveStoreUnchanged ==
    [][(GetPatientEscalations \/ GetActiveEscalations \/ GetDashboard \/ GenerateReport)
        => escalation_events' = escalation_events]_vars

\* C27: concurrent create calls lose no event: every event that a create call has
\* returned is in the store and is found by its id, also when the calls are the
\* first ones for their subject.
C27_ConcurrentCreatesLoseNoEvent ==
    \A t \in Threads :
        (pc[t] = "done" /\ frame[t].op = "create")
        => LET found == _find_escalation_by_id(escalation_events, frame[t].escalation_id)
           IN  found # <<>> /\ found[1].escalation_id = frame[t].escalation_id

\* the events the reads made so far were handed
ReadResults ==
    Range(observed)
    \cup (IF dashboard_data = <<>> THEN {}
          ELSE Range(dashboard_data.active_escalations)
               \cup Range(dashboard_data.recent_escalations)
               \cup Range(dashboard_data.overdue_escalations))

\* C28: every event that is visible in the store carries its routing info: a read
\* that runs concurrently with create (by id, the active list, the dashboard)
\* never finds an event that has no routing_info yet.
C28_VisibleEventsAreRouted ==
    \A e \in ReadResults : e.routing_info # <<>>

====
